---- MODULE Spec2Model ----
(***************************************************************************)
(* Model of the guide/docs feature of template-python-basic:               *)
(*   src/src/services/guide/service.py   (DocumentService)                 *)
(*   src/src/api/features/guide/router.py (_serve_markdown_file)           *)
(* Strings of the program are modelled as sequences of one-character       *)
(* strings, so that strip, split, substring tests and the two regular      *)
(* expressions are computed character by character as Python does.         *)
(***************************************************************************)
EXTENDS Integers, Sequences, FiniteSets, TLC

\* ------------------------------------------------------------------ bounds

\* Longest request string enumerated over Alphabet.
MaxPathLen == 3

\* Characters the enumerated request strings are built from.
Alphabet == {"a", ".", "/", "?"}

\* ----------------------------------------------------------- string helpers

Concat3(a, b, c) == a \o b \o c

StartsWith(s, p) == Len(s) >= Len(p) /\ SubSeq(s, 1, Len(p)) = p

EndsWith(s, p) == Len(s) >= Len(p) /\ SubSeq(s, Len(s) - Len(p) + 1, Len(s)) = p

\* Python: sub in s
Contains(s, sub) ==
  \E i \in 1..(Len(s) - Len(sub) + 1) : SubSeq(s, i, i + Len(sub) - 1) = sub

HasChar(s, c) == \E i \in 1..Len(s) : s[i] = c

RECURSIVE LStrip(_, _)
LStrip(s, c) == IF s # <<>> /\ Head(s) = c THEN LStrip(Tail(s), c) ELSE s

RECURSIVE RStrip(_, _)
RStrip(s, c) ==
  IF s # <<>> /\ s[Len(s)] = c THEN RStrip(SubSeq(s, 1, Len(s) - 1), c) ELSE s

\* Python: s.strip(c) for a one-character c
Strip(s, c) == RStrip(LStrip(s, c), c)

\* Index of the first occurrence of c in s at or after position i, 0 if none.
RECURSIVE IndexFrom(_, _, _)
IndexFrom(s, c, i) ==
  IF i > Len(s) THEN 0
  ELSE IF s[i] = c THEN i ELSE IndexFrom(s, c, i + 1)

\* Python: s.split(c); always at least one (possibly empty) part.
RECURSIVE Split(_, _)
Split(s, c) ==
  LET k == IndexFrom(s, c, 1) IN
    IF k = 0 THEN <<s>>
    ELSE <<SubSeq(s, 1, k - 1)>> \o Split(SubSeq(s, k + 1, Len(s)), c)

\* Python: c.join(parts)
RECURSIVE Join(_, _)
Join(parts, c) ==
  IF parts = <<>> THEN <<>>
  ELSE IF Len(parts) = 1 THEN parts[1]
  ELSE parts[1] \o <<c>> \o Join(Tail(parts), c)

\* parts[:-1]
DropLast(parts) == SubSeq(parts, 1, Len(parts) - 1)

RECURSIVE SelectParts(_)
\* the path components pathlib keeps: empty parts and "." parts are collapsed
SelectParts(parts) ==
  IF parts = <<>> THEN <<>>
  ELSE IF Head(parts) = <<>> \/ Head(parts) = <<".">> THEN SelectParts(Tail(parts))
  ELSE <<Head(parts)>> \o SelectParts(Tail(parts))

\* pathlib: the normal form of a relative path string (Path(a) / s)
NormRel(s) == Join(SelectParts(Split(s, "/")), "/")

\* All strings over Alphabet of length at most MaxPathLen.
AllStrings == UNION {[1..n -> Alphabet] : n \in 0..MaxPathLen}

\* Sample request strings beyond AllStrings (literal cases of the specification).
IndexStr == <<"i","n","d","e","x">>

SamplePaths ==
  { IndexStr,
    <<"a","/","b">>,
    <<"g","u","i","d","e","/","i","n","t","r","o">>,
    <<".",".","/",".",".","/","e","t","c","/","p","a","s","s","w","d">>,
    <<"a","<">>, <<"a",">">>, <<"a","|">>, <<"a",":">>, <<"a","*">>,
    <<"a","\\","b">>,
    <<"/",".",".","/">>, <<"/","a","/",".",".","/","a","/">>,
    <<"m","y","-","d","o","c","/","x">> }

Inputs == AllStrings \cup SamplePaths

\* -------------------------------------------------------------- filesystem
(* The filesystem under the documents root, as the request handlers see   *)
(* it.  One document name fs.doc has its two candidate files in the state *)
(* fs.md (<doc>.md) and fs.idx (<doc>/index.md); one asset AssetName is   *)
(* in the state fs.asset; the directory entry LinkName under the root may *)
(* be a symbolic link (fs.link).  Every other file is missing.  fs.lib   *)
(* tells whether the markdown library renders the documents ("ok") or     *)
(* raises on them ("raises").                                             *)

FileStates == {"missing", "dir", "file", "unreadable"}

DocNames == { IndexStr, <<"a">>, <<"a","/","b">> }

AssetName == <<"a">>

LinkName == <<"a">>

LinkStates == {"none", "sibling", "outside", "loop"}

AssetStates == {"missing", "dir", "file"}

\* The filesystems explored: every state of the two candidate files of every
\* document name, every state of the asset, every state of the link.
FileSystems ==
  [doc : DocNames, md : FileStates, idx : FileStates,
   asset : AssetStates, link : {"none"}, lib : {"ok"}]
  \cup [doc : {<<"a">>}, md : {"file"}, idx : {"missing", "file"},
        asset : {"missing"}, link : LinkStates, lib : {"ok"}]
  \cup [doc : {<<"a">>}, md : FileStates, idx : {"missing", "file"},
        asset : {"missing"}, link : {"none"}, lib : {"raises"}]

MdSuffix == <<".","m","d">>

IndexMd == <<"i","n","d","e","x",".","m","d">>

AssetsDir == <<"a","s","s","e","t","s">>

\* Path(docs_dir) / a / b ... as a normalised path relative to the root
PathJoin(a, b) == NormRel(Concat3(a, <<"/">>, b))

\* exists()/is_file() of a normalised path relative to the documents root
FileStatus(f, rel) ==
  IF rel = NormRel(f.doc \o MdSuffix) THEN f.md
  ELSE IF rel = PathJoin(f.doc, IndexMd) THEN f.idx
  ELSE IF rel = PathJoin(AssetsDir, AssetName) THEN f.asset
  ELSE IF rel = <<>> THEN "dir"
  ELSE IF rel = AssetsDir /\ f.asset # "missing" THEN "dir"
  ELSE "missing"

\* Text of the two sample markdown files.
MdDoc == <<"[","B","a","c","k","]","(",".",".","/","o","t","h","e","r",")">>

IdxDoc == <<"!","[","L","o","g","o","]","(","l","o","g","o",".","p","n","g",")">>

FileContent(f, rel) == IF rel = NormRel(f.doc \o MdSuffix) THEN MdDoc ELSE IdxDoc

\* Components of the absolute documents root, of a sibling directory whose
\* name begins with the root's name, and of a directory elsewhere.
DocsRootParts == << <<"d">> >>

SiblingParts == << <<"d","2">> >>

OutsideParts == << <<"e">> >>

AbsPath(parts) == <<"/">> \o Join(parts, "/")

\* str(docs_dir.resolve())
DocsRootAbs == AbsPath(DocsRootParts)

\* resolve(): ".." components pop the component before them
RECURSIVE Normalize(_, _)
Normalize(stack, parts) ==
  IF parts = <<>> THEN stack
  ELSE IF Head(parts) = <<".", ".">>
    THEN Normalize(IF stack = <<>> THEN stack ELSE DropLast(stack), Tail(parts))
  ELSE Normalize(Append(stack, Head(parts)), Tail(parts))

\* (docs_dir / clean_path).resolve(): [raised, value]
Resolve(f, clean) ==
  LET parts == SelectParts(Split(clean, "/"))
      via   == parts # <<>> /\ parts[1] = LinkName /\ f.link # "none"
  IN IF ~via
       THEN [raised |-> FALSE, value |-> AbsPath(Normalize(DocsRootParts, parts))]
     ELSE IF f.link = "loop" THEN [raised |-> TRUE, value |-> <<>>]
     ELSE IF f.link = "sibling"
       THEN [raised |-> FALSE,
             value |-> AbsPath(Normalize(SiblingParts, Tail(parts)))]
     ELSE [raised |-> FALSE,
           value |-> AbsPath(Normalize(OutsideParts, Tail(parts)))]

\* -------------------------------------------------------------- validation

NoError == [msg |-> "", arg |-> <<>>]

\* Faulty variant of BadChars: the question mark is missing from the list.
BadCharsWithoutQuestionMark == {"<", ">", "|", ":", "*"}

BadChars == {"<", ">", "|", ":", "*", "?"}

DotDot == <<".", ".">>

\* Faulty variant of HasTraversalOrBadChar: ".." is looked for at the start only.
HasTraversalPrefixOrBadChar(clean) ==
  StartsWith(clean, DotDot) \/ \E c \in BadChars : HasChar(clean, c)

\* the test of service.py line 101 / 123
HasTraversalOrBadChar(clean) ==
  Contains(clean, DotDot) \/ \E c \in BadChars : HasChar(clean, c)

\* The containment test and the result of _validate_path, lines 104-112.
CheckContained(f, path, clean) ==
  LET r == Resolve(f, clean) IN
    IF r.raised \/ ~StartsWith(r.value, DocsRootAbs)
      THEN [ok |-> FALSE, value |-> <<>>,
            err |-> [msg |-> "Invalid path: ", arg |-> path],
            resolved |-> TRUE]
    ELSE [ok |-> TRUE, value |-> clean, err |-> NoError, resolved |-> TRUE]

\* Faulty variant of ValidatePath: the empty string is not mapped to "index".
ValidatePathEmptyUnhandled(f, path) ==
  LET clean == Strip(path, "/") IN
    IF HasTraversalOrBadChar(clean)
      THEN [ok |-> FALSE, value |-> <<>>,
            err |-> [msg |-> "Invalid characters in path: ", arg |-> path],
            resolved |-> FALSE]
    ELSE CheckContained(f, path, clean)

\* Faulty variant of ValidatePath: the character and traversal test is left out.
ValidatePathNoCharTest(f, path) ==
  IF path = <<>>
    THEN [ok |-> TRUE, value |-> IndexStr, err |-> NoError, resolved |-> FALSE]
  ELSE CheckContained(f, path, Strip(path, "/"))

\* DocumentService._validate_path: [ok, value, err, resolved]
\* resolved tells whether the filesystem resolve call was made.
ValidatePath(f, path) ==
  IF path = <<>>
    THEN [ok |-> TRUE, value |-> IndexStr, err |-> NoError, resolved |-> FALSE]
  ELSE
    LET clean == Strip(path, "/") IN
    IF HasTraversalOrBadChar(clean)
      THEN [ok |-> FALSE, value |-> <<>>,
            err |-> [msg |-> "Invalid characters in path: ", arg |-> path],
            resolved |-> FALSE]
    ELSE CheckContained(f, path, clean)

\* DocumentService._validate_asset_path: [ok, value, err]
ValidateAssetPath(path) ==
  IF path = <<>>
    THEN [ok |-> FALSE, value |-> <<>>,
          err |-> [msg |-> "Asset path cannot be empty", arg |-> <<>>]]
  ELSE
    LET clean == Strip(path, "/") IN
    IF HasTraversalOrBadChar(clean)
      THEN [ok |-> FALSE, value |-> <<>>,
            err |-> [msg |-> "Invalid characters in asset path: ", arg |-> path]]
    ELSE [ok |-> TRUE, value |-> clean, err |-> NoError]

\* serve_index passes the fixed name "index", serve_doc the path parameter
RouteFileName(p) == IF p = <<>> THEN IndexStr ELSE p

\* the test of router.py line 16
RouteNameRejected(name) ==
  Contains(name, DotDot) \/ HasChar(name, "/") \/ HasChar(name, "\\")

\* ---------------------------------------------------------------- metadata

LowerLetters ==
  <<"a","b","c","d","e","f","g","h","i","j","k","l","m",
    "n","o","p","q","r","s","t","u","v","w","x","y","z">>

UpperLetters ==
  <<"A","B","C","D","E","F","G","H","I","J","K","L","M",
    "N","O","P","Q","R","S","T","U","V","W","X","Y","Z">>

IsLower(c) == \E i \in 1..26 : LowerLetters[i] = c

IsUpper(c) == \E i \in 1..26 : UpperLetters[i] = c

IsLetter(c) == IsLower(c) \/ IsUpper(c)

ToUpper(c) ==
  IF IsLower(c) THEN UpperLetters[CHOOSE i \in 1..26 : LowerLetters[i] = c] ELSE c

ToLower(c) ==
  IF IsUpper(c) THEN LowerLetters[CHOOSE i \in 1..26 : UpperLetters[i] = c] ELSE c

\* Python: s.lower()
LowerStr(s) == [i \in 1..Len(s) |-> ToLower(s[i])]

\* Python: s.title(): a letter that follows a letter is lowered, any other
\* letter is raised.
TitleStr(s) ==
  [i \in 1..Len(s) |->
     IF i > 1 /\ IsLetter(s[i - 1]) THEN ToLower(s[i]) ELSE ToUpper(s[i])]

\* Python: s.replace("-", " ")
HyphensToSpaces(s) == [i \in 1..Len(s) |-> IF s[i] = "-" THEN " " ELSE s[i]]

Label(part) == TitleStr(HyphensToSpaces(part))

HomeStr == <<"H","o","m","e">>

DocHomeTitle ==
  <<"D","o","c","u","m","e","n","t","a","t","i","o","n"," ","H","o","m","e">>

\* Faulty variant of GetDocumentMetadata: the loop over the path parts
\* stops one part early, so the current document has no breadcrumb.
GetDocumentMetadataShortTrail(path) ==
  LET path_parts == IF path # IndexStr THEN Split(path, "/") ELSE <<IndexStr>>
      labels == [i \in 1..(Len(path_parts) - 1) |-> Label(path_parts[i])]
  IN [title |-> IF path = IndexStr THEN DocHomeTitle
                ELSE Label(path_parts[Len(path_parts)]),
      path |-> path,
      breadcrumbs |-> IF path # IndexStr THEN <<HomeStr>> \o labels
                      ELSE <<HomeStr>>]

\* DocumentService._get_document_metadata: [title, path, breadcrumbs]
GetDocumentMetadata(path) ==
  LET path_parts == IF path # IndexStr THEN Split(path, "/") ELSE <<IndexStr>>
      labels == [i \in 1..Len(path_parts) |-> Label(path_parts[i])]
  IN [title |-> IF path = IndexStr THEN DocHomeTitle
                ELSE Label(path_parts[Len(path_parts)]),
      path |-> path,
      breadcrumbs |-> IF path # IndexStr THEN <<HomeStr>> \o labels
                      ELSE <<HomeStr>>]

\* ------------------------------------------------------------ link rewriting

GuidePrefix == <<"/","g","u","i","d","e","/">>

GuideAssetsPrefix == <<"/","g","u","i","d","e","/","a","s","s","e","t","s","/">>

HttpPrefix == <<"h","t","t","p",":","/","/">>

HttpsPrefix == <<"h","t","t","p","s",":","/","/">>

UpPrefix == <<".",".","/">>

AssetsPrefix == <<"a","s","s","e","t","s","/">>

ImageExts ==
  { <<".","j","p","g">>, <<".","j","p","e","g">>, <<".","p","n","g">>,
    <<".","g","i","f">>, <<".","s","v","g">>, <<".","w","e","b","p">> }

NoMatch == [ok |-> FALSE, text |-> <<>>, url |-> <<>>, last |-> 0]

\* "[" at position i, then the pattern's  ([^\]]+ or *)\]\(([^)]+)\)
\* minText is 1 for the link pattern and 0 for the image pattern.
MatchBracketAt(s, i, minText) ==
  IF i > Len(s) \/ s[i] # "[" THEN NoMatch
  ELSE
    LET j == IndexFrom(s, "]", i + 1) IN
    IF j = 0 \/ j - i - 1 < minText \/ j + 1 > Len(s) \/ s[j + 1] # "(" THEN NoMatch
    ELSE
      LET k == IndexFrom(s, ")", j + 2) IN
      IF k = 0 \/ k = j + 2 THEN NoMatch
      ELSE [ok |-> TRUE, text |-> SubSeq(s, i + 1, j - 1),
            url |-> SubSeq(s, j + 2, k - 1), last |-> k]

\* link_pattern  \[([^\]]+)\]\(([^)]+)\)  tried at position i
MatchLinkAt(s, i) == MatchBracketAt(s, i, 1)

\* img_pattern  !\[([^\]]*)\]\(([^)]+)\)  tried at position i
MatchImageAt(s, i) ==
  IF i > Len(s) \/ s[i] # "!" THEN NoMatch ELSE MatchBracketAt(s, i + 1, 0)

MarkdownLink(text, url) == <<"[">> \o text \o <<"]", "(">> \o url \o <<")">>

\* Faulty variant of ReplaceLink: the trailing .md is kept in the href.
ReplaceLinkKeepsMd(text, url, current_path) ==
  IF StartsWith(url, HttpPrefix) \/ StartsWith(url, HttpsPrefix)
     \/ StartsWith(url, <<"#">>) \/ StartsWith(url, <<"/">>)
    THEN MarkdownLink(text, url)
  ELSE
    LET new_path ==
          IF StartsWith(url, UpPrefix)
            THEN LET current_parts == IF current_path # IndexStr
                                        THEN DropLast(Split(current_path, "/"))
                                        ELSE <<>>
                     relative_url == SubSeq(url, 4, Len(url))
                 IN IF current_parts # <<>>
                      THEN Join(current_parts \o <<relative_url>>, "/")
                      ELSE relative_url
          ELSE LET current_dir == IF HasChar(current_path, "/")
                                    THEN Join(DropLast(Split(current_path, "/")), "/")
                                    ELSE <<>>
               IN IF current_dir # <<>>
                    THEN Concat3(current_dir, <<"/">>, url)
                    ELSE url
    IN MarkdownLink(text, GuidePrefix \o new_path)

\* Faulty variant of ReplaceImage: absolute and rooted targets are not
\* left alone.
ReplaceImageNoAbsoluteSkip(alt_text, url) ==
  IF StartsWith(url, AssetsPrefix)
    THEN <<"!">> \o MarkdownLink(alt_text, GuidePrefix \o url)
  ELSE IF ~StartsWith(url, UpPrefix)
          /\ \E ext \in ImageExts : EndsWith(LowerStr(url), ext)
    THEN <<"!">> \o MarkdownLink(alt_text, GuideAssetsPrefix \o url)
  ELSE <<"!">> \o MarkdownLink(alt_text, url)

\* replace_link: the replacement of one link match
ReplaceLink(text, url, current_path) ==
  IF StartsWith(url, HttpPrefix) \/ StartsWith(url, HttpsPrefix)
     \/ StartsWith(url, <<"#">>) \/ StartsWith(url, <<"/">>)
    THEN MarkdownLink(text, url)
  ELSE
    LET new_path ==
          IF StartsWith(url, UpPrefix)
            THEN LET current_parts == IF current_path # IndexStr
                                        THEN DropLast(Split(current_path, "/"))
                                        ELSE <<>>
                     relative_url == SubSeq(url, 4, Len(url))
                 IN IF current_parts # <<>>
                      THEN Join(current_parts \o <<relative_url>>, "/")
                      ELSE relative_url
          ELSE LET current_dir == IF HasChar(current_path, "/")
                                    THEN Join(DropLast(Split(current_path, "/")), "/")
                                    ELSE <<>>
               IN IF current_dir # <<>>
                    THEN Concat3(current_dir, <<"/">>, url)
                    ELSE url
        clean_path == IF EndsWith(new_path, MdSuffix)
                        THEN SubSeq(new_path, 1, Len(new_path) - 3)
                        ELSE new_path
    IN MarkdownLink(text, GuidePrefix \o clean_path)

\* replace_image: the replacement of one image match
ReplaceImage(alt_text, url) ==
  IF StartsWith(url, HttpPrefix) \/ StartsWith(url, HttpsPrefix)
     \/ StartsWith(url, <<"/">>)
    THEN <<"!">> \o MarkdownLink(alt_text, url)
  ELSE IF StartsWith(url, AssetsPrefix)
    THEN <<"!">> \o MarkdownLink(alt_text, GuidePrefix \o url)
  ELSE IF ~StartsWith(url, UpPrefix)
          /\ \E ext \in ImageExts : EndsWith(LowerStr(url), ext)
    THEN <<"!">> \o MarkdownLink(alt_text, GuideAssetsPrefix \o url)
  ELSE <<"!">> \o MarkdownLink(alt_text, url)

\* re.sub(link_pattern, replace_link, s): leftmost non-overlapping matches
RECURSIVE SubLinks(_, _, _)
SubLinks(s, i, current_path) ==
  IF i > Len(s) THEN <<>>
  ELSE LET m == MatchLinkAt(s, i) IN
    IF m.ok THEN ReplaceLink(m.text, m.url, current_path)
                 \o SubLinks(s, m.last + 1, current_path)
    ELSE <<s[i]>> \o SubLinks(s, i + 1, current_path)

\* re.sub(img_pattern, replace_image, s)
RECURSIVE SubImages(_, _)
SubImages(s, i) ==
  IF i > Len(s) THEN <<>>
  ELSE LET m == MatchImageAt(s, i) IN
    IF m.ok THEN ReplaceImage(m.text, m.url) \o SubImages(s, m.last + 1)
    ELSE <<s[i]>> \o SubImages(s, i + 1)

\* DocumentService._process_relative_links
ProcessRelativeLinks(markdown_content, current_path) ==
  SubImages(SubLinks(markdown_content, 1, current_path), 1)

\* ------------------------------------------------------- rendering, template

\* DocumentService._markdown_to_html: the markdown library is a collaborator
\* outside the repository; its output is kept as the tagged source text.
MarkdownToHtml(markdown_content) == [stage |-> "html", text |-> markdown_content]

\* the default base_url of generate_html_template
BaseUrl == <<"/","g","u","i","d","e">>

\* The breadcrumb trail is kept as the list of its elements, which the code
\* joins with " / ": an <a href=...> link or the <span> of the current page.
CrumbLink(href, text) == [tag |-> "a", href |-> href, text |-> text]

CrumbCurrent(text) == [tag |-> "span", href |-> <<>>, text |-> text]

\* Faulty variant of BreadcrumbLoop: the link path is not accumulated, each
\* link holds its own label only.
RECURSIVE BreadcrumbLoopOwnLabel(_, _, _, _)
BreadcrumbLoopOwnLabel(breadcrumbs, i, current_path, base_url) ==
  IF i > Len(breadcrumbs) THEN <<>>
  ELSE IF i = Len(breadcrumbs) THEN <<CrumbCurrent(breadcrumbs[i])>>
  ELSE IF i = 1
    THEN <<CrumbLink(base_url \o <<"/">>, breadcrumbs[i])>>
         \o BreadcrumbLoopOwnLabel(breadcrumbs, i + 1, current_path, base_url)
  ELSE <<CrumbLink(Concat3(base_url, <<"/">>, breadcrumbs[i]), breadcrumbs[i])>>
       \o BreadcrumbLoopOwnLabel(breadcrumbs, i + 1, current_path, base_url)

\* the loop of _generate_breadcrumb_html from entry i on (entries count
\* from 1 here, from 0 in the code)
RECURSIVE BreadcrumbLoop(_, _, _, _)
BreadcrumbLoop(breadcrumbs, i, current_path, base_url) ==
  IF i > Len(breadcrumbs) THEN <<>>
  ELSE IF i = Len(breadcrumbs) THEN <<CrumbCurrent(breadcrumbs[i])>>
  ELSE IF i = 1
    THEN <<CrumbLink(base_url \o <<"/">>, breadcrumbs[i])>>
         \o BreadcrumbLoop(breadcrumbs, i + 1, current_path, base_url)
  ELSE LET next_path == Concat3(current_path, <<"/">>, breadcrumbs[i]) IN
         <<CrumbLink(next_path, breadcrumbs[i])>>
         \o BreadcrumbLoop(breadcrumbs, i + 1, next_path, base_url)

\* _generate_breadcrumb_html
GenerateBreadcrumbHtml(breadcrumbs, base_url) ==
  IF breadcrumbs = <<>> THEN <<>>
  ELSE BreadcrumbLoop(breadcrumbs, 1, base_url, base_url)

\* generate_html_template: the page is kept as its three inserted parts.
GenerateHtmlTemplate(title, content, breadcrumbs) ==
  [title |-> title, breadcrumbs |-> GenerateBreadcrumbHtml(breadcrumbs, BaseUrl),
   content |-> content.text, media |-> "text/html"]

PngExt == <<".","p","n","g">>

\* mimetypes.guess_type with the default of service.py line 77
GuessMime(rel) ==
  IF EndsWith(LowerStr(rel), PngExt) THEN "image/png" ELSE "application/octet-stream"

\* ------------------------------------------------------------------- state

VARIABLES
  fs,       \* the filesystem under the documents root
  pc,       \* position of the request being served
  kind,     \* "doc" | "asset" | "route": which handler serves the request
  path,     \* the raw request string
  safe,     \* the validated logical path
  meta,     \* DocumentMetadata of the request
  cand,     \* index into possible_paths of _read_markdown_file (from 1)
  content,  \* [stage, text]: the document text as it moves down the pipeline
  ops,      \* the steps and filesystem calls made for the request, in order
  resp,     \* the HTTP response of the request
  handles,  \* the candidate files the request holds an open handle on
  opened,   \* the candidate files the request has opened, in order
  lnk,      \* input and output of one _process_relative_links call
  crumb,    \* input and output of one _generate_breadcrumb_html call
  hist,     \* one earlier request and its response, kept for comparison
  db,       \* the committed rows of the users table and the id sequence
  sess,     \* the database sessions: state, unflushed call, pending rows
  mw        \* input and output of one handle_application_exceptions call

vars == <<fs, pc, kind, path, safe, meta, cand, content, ops, resp,
          handles, opened, lnk, crumb, hist, db, sess, mw>>

\* what the request pipeline never touches
others == <<lnk, crumb, hist, db, sess, mw>>

NoMeta == [title |-> <<>>, path |-> <<>>, breadcrumbs |-> <<>>]

NoContent == [stage |-> "none", text |-> <<>>]

NoResp == [status |-> 0, detail |-> NoError, body |-> <<>>]

NoLnk == [embed |-> "none", lead |-> <<>>, text |-> <<>>, url |-> <<>>,
          content |-> <<>>, path |-> <<>>, links |-> <<>>, out |-> <<>>]

NoCrumb == [applied |-> FALSE, breadcrumbs |-> <<>>, html |-> <<>>]

NoHist == [noted |-> FALSE, kind |-> "none", path |-> <<>>, resp |-> NoResp,
           others |-> FALSE]

\* the database sessions a caller can hold at one time
SessionIds == {"s1", "s2"}

\* empty users and tasks tables; ids are handed out in sequence
NoDb == [users |-> {}, next_id |-> 1, tasks |-> {}, next_task |-> 1]

\* Python's None where a row is looked for
None == [id |-> 0]

NoCall == [op |-> "none", username |-> "", step |-> "none", error |-> "",
           msg |-> "", row |-> 0]

\* nothing has been called on the session yet
NoRet == [op |-> "none", id |-> 0, row |-> None, error |-> "", arg |-> <<>>]

\* the session has been in no scope yet
NoScope == [kind |-> "none", body |-> "", auto_commit |-> TRUE,
            rollback_on_exception |-> TRUE, calls |-> <<>>, raised |-> ""]

\* no session has been made yet
NoSess ==
  [s \in SessionIds |->
     [state |-> "closed", pending |-> {}, gone |-> {}, tpending |-> {},
      tgone |-> {}, call |-> NoCall, ret |-> NoRet, scope |-> NoScope]]

\* a response of the API as the middleware sees or makes it
NoOut == [kind |-> "none", status_code |-> 0, code |-> "", message |-> <<>>,
          class |-> "", text |-> ""]

\* the middleware has not been called
NoMw == [applied |-> FALSE, class |-> "none", text |-> "", out |-> NoOut]

ErrorResp(status, err) == [status |-> status, detail |-> err, body |-> <<>>]

\* the except clauses of serve_markdown_document
DocExcept(type, err) ==
  IF type = "DocumentNotFoundError" THEN ErrorResp(404, err)
  ELSE IF type = "InvalidPathError" THEN ErrorResp(400, err)
  ELSE ErrorResp(500, [msg |-> "Error processing document", arg |-> <<>>])

\* the except clause of serve_static_asset
AssetExcept(type, err) ==
  ErrorResp(500, [msg |-> "Error serving asset", arg |-> <<>>])

\* an exception of the markdown library; its text quotes the source
RenderError(text) == [msg |-> "markdown error near: ", arg |-> text]

\* possible_paths of _read_markdown_file, relative to the documents root
PossiblePaths(p) == << NormRel(p \o MdSuffix), PathJoin(p, IndexMd) >>

Init ==
  /\ fs \in FileSystems
  /\ pc = "idle"
  /\ kind = "none"
  /\ path = <<>>
  /\ safe = <<>>
  /\ meta = NoMeta
  /\ cand = 1
  /\ content = NoContent
  /\ ops = <<>>
  /\ resp = NoResp
  /\ handles = {}
  /\ opened = <<>>
  /\ lnk = NoLnk
  /\ crumb = NoCrumb
  /\ hist = NoHist
  /\ db = NoDb
  /\ sess = NoSess
  /\ mw = NoMw

\* A request arrives: the routing layer hands the raw string to a handler.
RequestOf(paths) ==
  /\ pc = "idle"
  /\ \E k \in {"doc", "asset", "route"}, p \in paths :
       /\ kind' = k
       /\ path' = p
       /\ pc' = CASE k = "doc" -> "doc_validate"
                  [] k = "asset" -> "asset_serve"
                  [] OTHER -> "route_check"
  /\ UNCHANGED <<fs, safe, meta, cand, content, ops, resp, handles, opened, others>>

Request == RequestOf(Inputs)

\* Faulty variant of EndRequest: the position in possible_paths outlives
\* the call, as if the iterator were kept on the service object.
EndRequestKeepsCand ==
  /\ pc = "done"
  /\ pc' = "idle"
  /\ kind' = "none"
  /\ path' = <<>>
  /\ safe' = <<>>
  /\ meta' = NoMeta
  /\ cand' = cand
  /\ content' = NoContent
  /\ ops' = <<>>
  /\ resp' = NoResp
  /\ opened' = <<>>
  /\ UNCHANGED <<fs, handles, lnk, crumb, db, sess, mw>>

\* The handler returns: its locals are gone, and the service object holds
\* nothing but docs_dir, so the next call starts from the initial values.
EndRequest ==
  /\ pc = "done"
  /\ pc' = "idle"
  /\ kind' = "none"
  /\ path' = <<>>
  /\ safe' = <<>>
  /\ meta' = NoMeta
  /\ cand' = 1
  /\ content' = NoContent
  /\ ops' = <<>>
  /\ resp' = NoResp
  /\ opened' = <<>>
  /\ UNCHANGED <<fs, handles, lnk, crumb, db, sess, mw>>

\* The response has been sent: nothing of the request is kept.
Finish == EndRequest /\ hist' = hist

\* serve_markdown_document, line 34
DocValidate ==
  /\ pc = "doc_validate"
  /\ LET r == ValidatePath(fs, path) IN
       /\ ops' = ops \o <<"validate">> \o (IF r.resolved THEN <<"resolve">> ELSE <<>>)
       /\ IF r.ok
            THEN /\ safe' = r.value
                 /\ pc' = "doc_metadata"
                 /\ resp' = resp
            ELSE /\ safe' = safe
                 /\ pc' = "done"
                 /\ resp' = DocExcept("InvalidPathError", r.err)
  /\ UNCHANGED <<fs, kind, path, meta, cand, content, handles, opened, others>>

\* serve_markdown_document, line 37
DocMetadata ==
  /\ pc = "doc_metadata"
  /\ meta' = GetDocumentMetadata(safe)
  /\ pc' = "doc_locate"
  /\ ops' = Append(ops, "metadata")
  /\ UNCHANGED <<fs, kind, path, safe, cand, content, resp, handles, opened, others>>

\* _read_markdown_file: the loop head and the exists()/is_file() test
DocLocate ==
  /\ pc = "doc_locate"
  /\ IF cand > Len(PossiblePaths(safe))
       THEN /\ resp' = DocExcept("DocumentNotFoundError",
                                 [msg |-> "Document not found: ", arg |-> safe])
            /\ pc' = "done"
            /\ UNCHANGED <<cand, ops>>
       ELSE /\ ops' = Append(ops, "exists")
            /\ IF FileStatus(fs, PossiblePaths(safe)[cand]) \in {"file", "unreadable"}
                 THEN pc' = "doc_open" /\ cand' = cand
                 ELSE pc' = "doc_locate" /\ cand' = cand + 1
            /\ resp' = resp
  /\ UNCHANGED <<fs, kind, path, safe, meta, content, handles, opened, others>>

\* _read_markdown_file: async with aiofiles.open(...) of the candidate, line 160
DocOpen ==
  /\ pc = "doc_open"
  /\ LET rel == PossiblePaths(safe)[cand] IN
       /\ handles' = handles \cup {rel}
       /\ opened' = Append(opened, rel)
  /\ ops' = Append(ops, "open")
  /\ pc' = "doc_read"
  /\ UNCHANGED <<fs, kind, path, safe, meta, cand, content, resp, others>>

\* Faulty variant of DocRead: the handle is closed after a successful read
\* only, not when the read raises.
DocReadLeaksOnError ==
  /\ pc = "doc_read"
  /\ LET rel == PossiblePaths(safe)[cand] IN
       IF FileStatus(fs, rel) = "file"
         THEN /\ content' = [stage |-> "raw", text |-> FileContent(fs, rel)]
              /\ ops' = ops \o <<"read", "close">>
              /\ handles' = handles \ {rel}
              /\ pc' = "doc_rewrite"
              /\ cand' = cand
         ELSE /\ content' = content
              /\ ops' = ops \o <<"read_error">>
              /\ handles' = handles
              /\ pc' = "doc_locate"
              /\ cand' = cand + 1
  /\ UNCHANGED <<fs, kind, path, safe, meta, resp, opened, others>>

\* _read_markdown_file: the read of the open candidate and the exit of the
\* async with block, lines 160-165; the block closes the file on both ways
\* out, and a read error is logged and the loop goes on.
DocRead ==
  /\ pc = "doc_read"
  /\ LET rel == PossiblePaths(safe)[cand] IN
       IF FileStatus(fs, rel) = "file"
         THEN /\ content' = [stage |-> "raw", text |-> FileContent(fs, rel)]
              /\ ops' = ops \o <<"read", "close">>
              /\ handles' = handles \ {rel}
              /\ pc' = "doc_rewrite"
              /\ cand' = cand
         ELSE /\ content' = content
              /\ ops' = ops \o <<"read_error", "close">>
              /\ handles' = handles \ {rel}
              /\ pc' = "doc_locate"
              /\ cand' = cand + 1
  /\ UNCHANGED <<fs, kind, path, safe, meta, resp, opened, others>>

\* serve_markdown_document, line 41
DocRewrite ==
  /\ pc = "doc_rewrite"
  /\ content' = [stage |-> "rewritten",
                 text |-> ProcessRelativeLinks(content.text, safe)]
  /\ ops' = Append(ops, "rewrite")
  /\ pc' = "doc_render"
  /\ UNCHANGED <<fs, kind, path, safe, meta, cand, resp, handles, opened, others>>

\* serve_markdown_document, line 44
DocRender ==
  /\ pc = "doc_render"
  /\ IF fs.lib = "ok"
       THEN /\ content' = MarkdownToHtml(content.text)
            /\ ops' = Append(ops, "render")
            /\ pc' = "doc_template"
            /\ resp' = resp
       ELSE \* the markdown library raises: the catch-all of lines 58-61
            /\ content' = content
            /\ ops' = Append(ops, "render_error")
            /\ pc' = "done"
            /\ resp' = DocExcept("Exception", RenderError(content.text))
  /\ UNCHANGED <<fs, kind, path, safe, meta, cand, handles, opened, others>>

\* serve_markdown_document, lines 47-53
DocTemplate ==
  /\ pc = "doc_template"
  /\ resp' = [status |-> 200, detail |-> NoError,
              body |-> <<GenerateHtmlTemplate(meta.title, content, meta.breadcrumbs)>>]
  /\ ops' = Append(ops, "template")
  /\ pc' = "done"
  /\ UNCHANGED <<fs, kind, path, safe, meta, cand, content, handles, opened, others>>

\* serve_static_asset: the whole handler (it has no suspension point)
AssetServe ==
  /\ pc = "asset_serve"
  /\ LET r == ValidateAssetPath(path) IN
       IF ~r.ok
         THEN /\ resp' = AssetExcept("InvalidPathError", r.err)
              /\ ops' = ops \o <<"validate">>
              /\ safe' = safe
         ELSE LET rel == PathJoin(AssetsDir, r.value) IN
              /\ safe' = r.value
              /\ ops' = ops \o <<"validate", "exists">>
              /\ IF FileStatus(fs, rel) # "file"
                   THEN resp' = AssetExcept("HTTPException",
                                            [msg |-> "Asset not found", arg |-> <<>>])
                   ELSE resp' = [status |-> 200, detail |-> NoError,
                                 body |-> <<[path |-> rel, media |-> GuessMime(rel)]>>]
  /\ pc' = "done"
  /\ UNCHANGED <<fs, kind, path, meta, cand, content, handles, opened, others>>

\* _serve_markdown_file of the guide router: lines 16-22
RouteCheck ==
  /\ pc = "route_check"
  /\ LET file_name == RouteFileName(path) IN
     IF RouteNameRejected(file_name)
       THEN /\ resp' = ErrorResp(400, [msg |-> "Invalid file name", arg |-> <<>>])
            /\ pc' = "done"
            /\ ops' = ops \o <<"validate">>
            /\ safe' = safe
       ELSE /\ ops' = ops \o <<"validate", "exists">>
            /\ safe' = file_name
            /\ IF FileStatus(fs, NormRel(file_name \o MdSuffix)) = "missing"
                 THEN /\ resp' = ErrorResp(404, [msg |-> "Document not found",
                                                 arg |-> <<>>])
                      /\ pc' = "done"
                 ELSE /\ resp' = resp
                      /\ pc' = "route_read"
  /\ UNCHANGED <<fs, kind, path, meta, cand, content, handles, opened, others>>

\* _serve_markdown_file of the guide router: lines 24-76
RouteRead ==
  /\ pc = "route_read"
  /\ LET rel == NormRel(safe \o MdSuffix) IN
       IF FileStatus(fs, rel) = "file" /\ fs.lib # "ok"
         THEN \* markdown.markdown raises outside the try block: the
              \* framework answers the unhandled exception
              /\ content' = content
              /\ ops' = ops \o <<"open", "read", "close", "render_error">>
              /\ resp' = ErrorResp(500, [msg |-> "Internal Server Error",
                                          arg |-> <<>>])
       ELSE IF FileStatus(fs, rel) = "file"
         THEN /\ content' = MarkdownToHtml(FileContent(fs, rel))
              /\ ops' = ops \o <<"open", "read", "close", "render", "template">>
              /\ resp' = [status |-> 200, detail |-> NoError,
                          body |-> <<[title |-> TitleStr(safe),
                                      breadcrumbs |-> <<>>,
                                      content |-> FileContent(fs, rel),
                                      media |-> "text/html"]>>]
         ELSE /\ content' = content
              /\ ops' = ops \o <<"open", "read_error">>
                           \o (IF FileStatus(fs, rel) = "unreadable"
                                 THEN <<"close">> ELSE <<>>)
              /\ resp' = ErrorResp(500, [msg |-> "Error reading file", arg |-> <<>>])
  /\ pc' = "done"
  /\ UNCHANGED <<fs, kind, path, safe, meta, cand, handles, opened, others>>

Next ==
  \/ Request
  \/ DocValidate
  \/ DocMetadata
  \/ DocLocate
  \/ DocOpen
  \/ DocRead
  \/ DocRewrite
  \/ DocRender
  \/ DocTemplate
  \/ AssetServe
  \/ RouteCheck
  \/ RouteRead
  \/ Finish

Spec == Init /\ [][Next]_vars

\* ------------------------------------------------- requests, one remembered
(* The same handlers on a few paths and filesystems, with one document    *)
(* request and its response remembered when it ends, so that a later      *)
(* request for the same path can be compared with it.                     *)

RepeatInputs == { <<>>, <<"a">>, <<"a","/">>, <<".",".">>, <<"?">> }

RepeatFileSystems ==
  {f \in FileSystems : f.doc = <<"a">> /\ f.link = "none" /\ f.asset = "missing"}

InitRepeat == Init /\ fs \in RepeatFileSystems

RequestRepeat == RequestOf(RepeatInputs)

\* The response has been sent; the request may be the one remembered, and
\* a request that differs from the remembered one is counted as served
\* in between.
FinishNoting ==
  /\ EndRequest
  /\ \/ /\ ~hist.noted
        /\ kind = "doc"
        /\ hist' = [noted |-> TRUE, kind |-> kind, path |-> path,
                    resp |-> resp, others |-> FALSE]
     \/ hist' = IF hist.noted /\ (kind # hist.kind \/ path # hist.path)
                 THEN [hist EXCEPT !.others = TRUE]
                 ELSE hist

NextRepeat ==
  \/ RequestRepeat
  \/ DocValidate
  \/ DocMetadata
  \/ DocLocate
  \/ DocOpen
  \/ DocRead
  \/ DocRewrite
  \/ DocRender
  \/ DocTemplate
  \/ AssetServe
  \/ RouteCheck
  \/ RouteRead
  \/ FinishNoting

SpecRepeat == InitRepeat /\ [][NextRepeat]_vars

\* ------------------------------------------- _process_relative_links alone
(* The link rewriter as a pure function: one call on a document built     *)
(* from a lead text, one link or image embed and a current document path. *)

LinkTexts ==
  { <<>>, <<"L">>, <<"L","o","g","o">>, <<"B","a","c","k">> }

LinkTargets ==
  { <<".",".","/","o","t","h","e","r">>,
    <<"o","t","h","e","r">>,
    <<"o","t","h","e","r",".","m","d">>,
    <<".",".","/","o","t","h","e","r",".","m","d">>,
    <<"l","o","g","o",".","p","n","g">>,
    <<"x",".","P","N","G">>,
    <<"s","/","p",".","g","i","f">>,
    <<"a","s","s","e","t","s","/","l",".","s","v","g">>,
    <<".",".","/","l",".","j","p","g">>,
    <<"n",".","t","x","t">>,
    <<"h","t","t","p",":","/","/","x">>,
    <<"h","t","t","p","s",":","/","/","x">>,
    <<"#","t">>,
    <<"/","r">>,
    <<"/","r",".","p","n","g">>,
    <<"h","t","t","p","s",":","/","/","x","/","y",".","p","n","g">> }

LinkLeads == { <<>>, <<"s","e","e"," ">> }

LinkPaths ==
  { IndexStr, <<"a">>, <<"a","/","b">>, <<"a","/","b","/","c">>,
    <<"g","u","i","d","e","/","i","n","t","r","o">> }

\* the markdown source of one embed: kind is "link" or "image"
Embed(k, text, url) ==
  IF k = "image" THEN <<"!">> \o MarkdownLink(text, url) ELSE MarkdownLink(text, url)

InitLinks ==
  /\ fs = [doc |-> <<"a">>, md |-> "file", idx |-> "missing",
           asset |-> "missing", link |-> "none", lib |-> "ok"]
  /\ pc = "idle"
  /\ kind = "none"
  /\ path = <<>>
  /\ safe = <<>>
  /\ meta = NoMeta
  /\ cand = 1
  /\ content = NoContent
  /\ ops = <<>>
  /\ resp = NoResp
  /\ handles = {}
  /\ opened = <<>>
  /\ lnk = NoLnk
  /\ crumb = NoCrumb
  /\ hist = NoHist
  /\ db = NoDb
  /\ sess = NoSess
  /\ mw = NoMw

\* one call of _process_relative_links(markdown_content, current_path)
LinkApply ==
  /\ lnk = NoLnk
  /\ \E k \in {"link", "image"}, lead \in LinkLeads, text \in LinkTexts,
        url \in LinkTargets, cur \in LinkPaths :
       LET src == lead \o Embed(k, text, url) IN
         lnk' = [embed |-> k, lead |-> lead, text |-> text, url |-> url,
                 content |-> src, path |-> cur,
                 links |-> SubLinks(src, 1, cur),
                 out |-> ProcessRelativeLinks(src, cur)]
  /\ UNCHANGED <<fs, pc, kind, path, safe, meta, cand, content, ops, resp,
                  handles, opened, crumb, hist, db, sess, mw>>

NextLinks == LinkApply

SpecLinks == InitLinks /\ [][NextLinks]_vars

\* ------------------------------------------- _generate_breadcrumb_html alone
(* The breadcrumb renderer as a pure function: one call on a list of up   *)
(* to MaxCrumbs labels with the default base_url.                         *)

MaxCrumbs == 4

CrumbLabels == { HomeStr, <<"A">>, <<"A"," ","B">> }

CrumbLists == UNION { [1..n -> CrumbLabels] : n \in 0..MaxCrumbs }

InitCrumbs == InitLinks

\* one call of _generate_breadcrumb_html(breadcrumbs, base_url)
CrumbApply ==
  /\ crumb = NoCrumb
  /\ \E b \in CrumbLists :
       crumb' = [applied |-> TRUE, breadcrumbs |-> b,
                 html |-> GenerateBreadcrumbHtml(b, BaseUrl)]
  /\ UNCHANGED <<fs, pc, kind, path, safe, meta, cand, content, ops, resp,
                  handles, opened, lnk, hist, db, sess, mw>>

NextCrumbs == CrumbApply

SpecCrumbs == InitCrumbs /\ [][NextCrumbs]_vars

\* ------------------------------------------------------- users and sessions
(* The users table behind two database sessions.  db.users holds the      *)
(* committed rows, sess[s].pending the rows session s has flushed inside  *)
(* its open transaction and sess[s].gone the ids of the rows it has       *)
(* deleted there.  A session is "sync" (SessionLocal, used by the         *)
(* database/operations repository inside session_scope) or "async" (the   *)
(* AsyncSession handed to UserService); sess[s].call is the create_user   *)
(* call the session made last, or is in the middle of, sess[s].ret what   *)
(* its last other call returned, and sess[s].scope how the last           *)
(* session_scope or transaction_scope around it was left.                 *)

MaxUserRows == 3

Usernames == {"ann", "bob"}

\* what the body of a with-block can raise of its own
BodyExceptions == {"ValueError", "RuntimeError"}

guideVars == <<fs, pc, kind, path, safe, meta, cand, content, ops, resp,
               handles, opened, lnk, crumb, hist, mw>>

Ids(rows) == {r.id : r \in rows}

\* a table as a transaction sees it: the committed rows it has not written
\* or deleted itself, and the rows it has written
VisibleOf(rows, pending, gone) ==
  {r \in rows : r.id \notin Ids(pending) \cup gone} \cup pending

\* Faulty variant of Visible: the rows other sessions have flushed but not
\* committed are read as well.
VisibleReadUncommitted(s) ==
  db.users \cup UNION {sess[t].pending : t \in SessionIds}

\* the users a SELECT inside session s returns
Visible(s) == VisibleOf(db.users, sess[s].pending, sess[s].gone)

\* select(User).where(User.username == username)
GetByUsername(s, username) == {r \in Visible(s) : r.username = username}

\* Faulty variant of UsernameExists: rows the session has flushed itself
\* are not looked at.
UsernameExistsCommittedOnly(s, username) ==
  \E r \in db.users : r.username = username

\* username_exists: get_by_username(...) is not None
UsernameExists(s, username) == GetByUsername(s, username) # {}

\* BaseRepository.get: session.get(self.model, id)
Get(s, id) ==
  IF \E r \in Visible(s) : r.id = id
    THEN CHOOSE r \in Visible(s) : r.id = id
    ELSE None

\* Faulty variant of UniqueViolation: the unique index looks at committed
\* rows only, so two open transactions can both insert one name.
UniqueViolationCommittedOnly(username) ==
  \E r \in db.users : r.username = username

\* unique=True on users.username: an INSERT of the name fails while a row
\* with it is committed or held by any open transaction
UniqueViolation(username) ==
  \E r \in db.users \cup UNION {sess[t].pending : t \in SessionIds} :
    r.username = username

DoneCall(op, username, error, msg) ==
  [op |-> op, username |-> username, step |-> "done", error |-> error,
   msg |-> msg, row |-> 0]

\* session.rollback(): the transaction's writes and deletes are dropped
Rollback(rec) ==
  [rec EXCEPT !.pending = {}, !.gone = {}, !.tpending = {}, !.tgone = {}]

\* session.close(): an open transaction is rolled back with it, and what
\* the session returned last goes out of use with its caller
Close(rec) == [Rollback(rec) EXCEPT !.state = "closed", !.ret = NoRet]

\* Faulty variant of SessionScope: the commit sits in the finally clause.
SessionScopeCommitsInFinally(body) ==
  [NoScope EXCEPT !.kind = "session_scope", !.body = body,
                  !.calls = <<"commit", "close">>,
                  !.raised = IF body = "returns" THEN "" ELSE body]

\* session_scope: what is called on the session when the body of the with
\* block returns or raises, and what the with statement raises
SessionScope(body) ==
  [NoScope EXCEPT !.kind = "session_scope", !.body = body,
                  !.calls = IF body = "returns" THEN <<"commit", "close">>
                            ELSE <<"rollback", "close">>,
                  !.raised = IF body = "returns" THEN "" ELSE body]

\* SessionLocal() of session_scope / create_session() of get_db_session
OpenSession(s) ==
  /\ sess[s].state = "closed"
  /\ \E k \in {"sync", "async"} :
       sess' = [sess EXCEPT ![s] = [NoSess[s] EXCEPT !.state = k]]
  /\ UNCHANGED <<db, guideVars>>

\* UserRepository.create_user of database/operations, with the add, flush
\* and refresh of BaseRepository.create
RepoCreateUser(s) ==
  /\ sess[s].state = "sync"
  /\ \E u \in Usernames :
       IF UsernameExists(s, u)
         THEN /\ sess' = [sess EXCEPT ![s].call =
                            DoneCall("repo_create", u, "ValueError", "already exists")]
              /\ db' = db
       ELSE IF UniqueViolation(u)
         THEN /\ sess' = [sess EXCEPT ![s].call =
                            DoneCall("repo_create", u, "IntegrityError", "")]
              /\ db' = db
       ELSE /\ db.next_id <= MaxUserRows
            /\ sess' = [sess EXCEPT
                          ![s].pending = @ \cup {[id |-> db.next_id, username |-> u]},
                          ![s].call = [DoneCall("repo_create", u, "", "")
                                         EXCEPT !.row = db.next_id]]
            /\ db' = [db EXCEPT !.next_id = @ + 1]
  /\ UNCHANGED guideVars

\* BaseRepository.get of database/operations on the users table
RepoGet(s) ==
  /\ sess[s].state = "sync"
  /\ \E id \in 1..MaxUserRows :
       sess' = [sess EXCEPT ![s].ret =
                  [NoRet EXCEPT !.op = "repo_get", !.id = id, !.row = Get(s, id)]]
  /\ UNCHANGED <<db, guideVars>>

\* the tables and the session after the calls a scope makes on the session
\* when it is left, in their order: commit() writes the transaction out,
\* rollback() drops it, close() ends the session, a commit() that raises
\* writes nothing
RECURSIVE AfterCalls(_, _)
AfterCalls(calls, st) ==
  IF calls = <<>> THEN st
  ELSE AfterCalls(Tail(calls),
         IF Head(calls) = "commit"
           THEN [db |-> [st.db EXCEPT
                           !.users = VisibleOf(@, st.rec.pending, st.rec.gone),
                           !.tasks = VisibleOf(@, st.rec.tpending, st.rec.tgone)],
                 rec |-> Rollback(st.rec)]
         ELSE IF Head(calls) = "rollback"
           THEN [db |-> st.db, rec |-> Rollback(st.rec)]
         ELSE IF Head(calls) = "close"
           THEN [db |-> st.db, rec |-> Close(st.rec)]
         ELSE st)

\* a session_scope block is left: its body returns or raises
LeaveScope(s, body) ==
  LET scope == SessionScope(body)
      st == AfterCalls(scope.calls, [db |-> db, rec |-> sess[s]])
  IN /\ db' = st.db
     /\ sess' = [sess EXCEPT ![s] = [st.rec EXCEPT !.scope = scope]]

\* session_scope left without an exception: commit, then close
ScopeCommit(s) ==
  /\ sess[s].state = "sync"
  /\ LeaveScope(s, "returns")
  /\ UNCHANGED guideVars

\* session_scope left by an exception: rollback, then close
ScopeRollback(s) ==
  /\ sess[s].state = "sync"
  /\ \E e \in BodyExceptions : LeaveScope(s, e)
  /\ UNCHANGED guideVars

\* Faulty variant of TransactionScope: the except clause swallows the
\* exception after the rollback.
TransactionScopeSwallows(body, auto_commit, rollback_on_exception, commit) ==
  [kind |-> "transaction_scope", body |-> body, auto_commit |-> auto_commit,
   rollback_on_exception |-> rollback_on_exception,
   calls |-> IF body = "returns"
               THEN IF auto_commit THEN <<"commit">> ELSE <<>>
               ELSE IF rollback_on_exception THEN <<"rollback">> ELSE <<>>,
   raised |-> ""]

\* transaction_scope: what is called on the session when the body of the
\* async with block returns or raises, and what the statement raises;
\* commit is "ok" or the exception session.commit() raises
TransactionScope(body, auto_commit, rollback_on_exception, commit) ==
  LET failed == IF body # "returns" THEN body
                ELSE IF auto_commit /\ commit # "ok" THEN commit
                ELSE ""
  IN [kind |-> "transaction_scope", body |-> body, auto_commit |-> auto_commit,
      rollback_on_exception |-> rollback_on_exception,
      calls |-> (IF body = "returns" /\ auto_commit
                   THEN IF commit = "ok" THEN <<"commit">> ELSE <<"commit_raises">>
                   ELSE <<>>)
                \o (IF failed # "" /\ rollback_on_exception
                      THEN <<"rollback">> ELSE <<>>),
      raised |-> failed]

\* what session.commit() can do
CommitOutcomes == {"ok", "OperationalError"}

\* execute_in_transaction: the operation has returned or raised, and the
\* transaction_scope around it is left
ExecuteInTransaction(s, rec, body, commit) ==
  LET scope == TransactionScope(body, TRUE, TRUE, commit)
      st == AfterCalls(scope.calls, [db |-> db, rec |-> rec])
  IN [db |-> st.db, rec |-> [st.rec EXCEPT !.scope = scope]]

\* UserService.create_user up to its first flush: the username_exists
\* query and, when the name is found, DuplicateError and the rollback of
\* transaction_scope
ServiceCheck(s) ==
  /\ sess[s].state = "async"
  /\ sess[s].call.step \notin {"checked", "flushed"}
  /\ \E u \in Usernames :
       IF UsernameExists(s, u)
         THEN LET st == ExecuteInTransaction(s,
                          [sess[s] EXCEPT !.call = DoneCall("service_create", u,
                                             "DuplicateError", "already exists")],
                          "DuplicateError", "ok")
              IN sess' = [sess EXCEPT ![s] = st.rec]
         ELSE /\ db.next_id <= MaxUserRows
              /\ sess' = [sess EXCEPT
                         ![s].call = [op |-> "service_create", username |-> u,
                                      step |-> "checked", error |-> "",
                                      msg |-> "", row |-> 0]]
  /\ UNCHANGED <<db, guideVars>>

\* UserService.create_user: repository.create (add, flush, refresh); a
\* failing flush is rolled back by transaction_scope and raised on
ServiceInsert(s) ==
  /\ sess[s].state = "async"
  /\ sess[s].call.step = "checked"
  /\ LET u == sess[s].call.username IN
       IF UniqueViolation(u)
         THEN LET st == ExecuteInTransaction(s,
                          [sess[s] EXCEPT !.call = DoneCall("service_create", u,
                                                          "IntegrityError", "")],
                          "IntegrityError", "ok")
              IN /\ sess' = [sess EXCEPT ![s] = st.rec]
                 /\ db' = db
         ELSE /\ sess' = [sess EXCEPT
                            ![s].pending = @ \cup {[id |-> db.next_id, username |-> u]},
                            ![s].call = [@ EXCEPT !.step = "flushed",
                                                  !.row = db.next_id]]
              /\ db' = [db EXCEPT !.next_id = @ + 1]
  /\ UNCHANGED guideVars

\* UserService.create_user: the commit of transaction_scope; a commit that
\* raises is rolled back and raised on
ServiceCommit(s) ==
  /\ sess[s].state = "async"
  /\ sess[s].call.step = "flushed"
  /\ \E commit \in CommitOutcomes :
       LET st == ExecuteInTransaction(s,
                   [sess[s] EXCEPT !.call = [@ EXCEPT
                      !.step = "done",
                      !.error = IF commit = "ok" THEN "" ELSE commit]],
                   "returns", commit)
       IN /\ db' = st.db
          /\ sess' = [sess EXCEPT ![s] = st.rec]
  /\ UNCHANGED guideVars

\* get_db_session: the session is closed when the request is over
CloseAsync(s) ==
  /\ sess[s].state = "async"
  /\ sess[s].call.step \notin {"checked", "flushed"}
  /\ sess' = [sess EXCEPT ![s] = Close(@)]
  /\ UNCHANGED <<db, guideVars>>

InitUsers == InitLinks

NextUsers ==
  \E s \in SessionIds :
    \/ OpenSession(s)
    \/ RepoCreateUser(s)
    \/ ScopeCommit(s)
    \/ ScopeRollback(s)
    \/ ServiceCheck(s)
    \/ ServiceInsert(s)
    \/ ServiceCommit(s)
    \/ CloseAsync(s)

SpecUsers == InitUsers /\ [][NextUsers]_vars

\* ------------------------------------------------- session_scope callers
(* The callers of session_scope and SessionLocal alone: sessions of the   *)
(* database/operations repositories that create users, look them up by   *)
(* id, and leave their scope by returning or by raising.                  *)

InitScope == InitLinks

NextScope ==
  \E s \in SessionIds :
    \/ OpenSession(s)
    \/ RepoCreateUser(s)
    \/ RepoGet(s)
    \/ ScopeCommit(s)
    \/ ScopeRollback(s)

SpecScope == InitScope /\ [][NextScope]_vars

\* ------------------------------------------------------------------ tasks
(* The tasks table behind the same sessions.  db.tasks holds the committed *)
(* rows, sess[s].tpending the rows session s has written inside its open   *)
(* transaction and sess[s].tgone the ids of the rows it has deleted there. *)
(* A "sync" session calls TaskRepository of database/operations, an        *)
(* "async" one TaskService and the handlers of the API above it.           *)

MaxTaskRows == 2

Titles == {"a"}

\* TaskStatus
TaskStatuses == {"pending", "in_progress", "completed", "cancelled"}

\* completed_at is None
NoTime == "None"

\* what datetime.utcnow() and datetime.now(timezone.utc) return
Times == {"t1"}

\* the update requests a client sends: the fields it has set
TaskUpdates ==
  {[title |-> "b"], [status |-> "completed"],
   [title |-> "b", status |-> "in_progress"]}

\* the tasks a SELECT inside session s returns
VisibleTasks(s) == VisibleOf(db.tasks, sess[s].tpending, sess[s].tgone)

\* BaseRepository.get on the tasks table
GetTask(s, id) ==
  IF \E r \in VisibleTasks(s) : r.id = id
    THEN CHOOSE r \in VisibleTasks(s) : r.id = id
    ELSE None

\* a row another open transaction has written or deleted is locked: a
\* write of it waits until that transaction is over
TaskLocked(s, id) ==
  \E t \in SessionIds \ {s} : id \in Ids(sess[t].tpending) \cup sess[t].tgone

UserLocked(s, id) ==
  \E t \in SessionIds \ {s} : id \in Ids(sess[t].pending) \cup sess[t].gone

\* the loop of BaseRepository.update over model_dump(exclude_unset=True)
SetFields(db_obj, update_data) ==
  [f \in DOMAIN db_obj |->
     IF f \in DOMAIN update_data THEN update_data[f] ELSE db_obj[f]]

\* BaseRepository.update: setattr of the fields set, add, flush, refresh
UpdateTask(rec, db_obj, update_data) ==
  [rec EXCEPT !.tpending = {r \in @ : r.id # db_obj.id}
                             \cup {SetFields(db_obj, update_data)}]

\* BaseRepository.create for a TaskCreate: completed_at is not a field of
\* it and keeps its default
NewTask(id, title, status, user_id) ==
  [id |-> id, title |-> title, status |-> status, user_id |-> user_id,
   completed_at |-> NoTime]

Returned(op, id, row, error) ==
  [NoRet EXCEPT !.op = op, !.id = id, !.row = row, !.error = error]

\* Faulty variant of MarkCompletedUpdate: the time of completion is left out.
MarkCompletedUpdateNoTime(now) == [status |-> "completed"]

\* the TaskUpdate of mark_completed
MarkCompletedUpdate(now) == [status |-> "completed", completed_at |-> now]

\* task_repo.create of database/operations
RepoCreateTask(s) ==
  /\ sess[s].state = "sync"
  /\ db.next_task <= MaxTaskRows
  /\ \E title \in Titles, user_id \in Ids(Visible(s)) :
       LET row == NewTask(db.next_task, title, "pending", user_id)
       IN sess' = [sess EXCEPT ![s].tpending = @ \cup {row},
                               ![s].ret = Returned("repo_create_task", row.id, row, "")]
  /\ db' = [db EXCEPT !.next_task = @ + 1]
  /\ UNCHANGED guideVars

\* TaskRepository.mark_completed of database/operations
RepoMarkCompleted(s) ==
  /\ sess[s].state = "sync"
  /\ \E task_id \in 1..MaxTaskRows, now \in Times :
       LET task == GetTask(s, task_id) IN
       IF task # None
         THEN /\ ~TaskLocked(s, task_id)
              /\ LET update_data == MarkCompletedUpdate(now)
                     rec == UpdateTask(sess[s], task, update_data)
                 IN sess' = [sess EXCEPT ![s] =
                      [rec EXCEPT !.ret = Returned("repo_mark_completed", task_id,
                                             SetFields(task, update_data), "")]]
         ELSE sess' = [sess EXCEPT ![s].ret =
                         Returned("repo_mark_completed", task_id, None, "")]
  /\ UNCHANGED <<db, guideVars>>

\* TaskService.create_task: repository.create inside execute_in_transaction
ServiceCreateTask(s) ==
  /\ sess[s].state = "async"
  /\ db.next_task <= MaxTaskRows
  /\ \E title \in Titles, status \in TaskStatuses, user_id \in Ids(Visible(s)),
        commit \in CommitOutcomes :
       LET row == NewTask(db.next_task, title, status, user_id)
           rec == [sess[s] EXCEPT
                     !.tpending = @ \cup {row},
                     !.ret = Returned("create_task", row.id,
                                      IF commit = "ok" THEN row ELSE None,
                                      IF commit = "ok" THEN "" ELSE commit)]
           st == ExecuteInTransaction(s, rec, "returns", commit)
       IN /\ sess' = [sess EXCEPT ![s] = st.rec]
          /\ db' = [st.db EXCEPT !.next_task = @ + 1]
  /\ UNCHANGED guideVars

\* the get, the NotFoundError and the repository.update the mark_* methods
\* of TaskService and the last branch of update_task_status share
ServiceUpdate(s, op, task_id, update_data) ==
  LET task == GetTask(s, task_id) IN
  IF task = None
    THEN sess' = [sess EXCEPT ![s].ret = Returned(op, task_id, None, "NotFoundError")]
    ELSE /\ ~TaskLocked(s, task_id)
         /\ sess' = [sess EXCEPT ![s] =
              [UpdateTask(sess[s], task, update_data) EXCEPT
                 !.ret = Returned(op, task_id, SetFields(task, update_data), "")]]

\* TaskService.mark_completed
ServiceMarkCompleted(s) ==
  /\ sess[s].state = "async"
  /\ \E task_id \in 1..MaxTaskRows, now \in Times :
       ServiceUpdate(s, "mark_completed", task_id, MarkCompletedUpdate(now))
  /\ UNCHANGED <<db, guideVars>>

\* TaskService.mark_in_progress
ServiceMarkInProgress(s) ==
  /\ sess[s].state = "async"
  /\ \E task_id \in 1..MaxTaskRows :
       ServiceUpdate(s, "mark_in_progress", task_id, [status |-> "in_progress"])
  /\ UNCHANGED <<db, guideVars>>

\* TaskService.mark_cancelled
ServiceMarkCancelled(s) ==
  /\ sess[s].state = "async"
  /\ \E task_id \in 1..MaxTaskRows :
       ServiceUpdate(s, "mark_cancelled", task_id, [status |-> "cancelled"])
  /\ UNCHANGED <<db, guideVars>>

\* the TaskUpdate TaskService.update_task_status ends up applying
StatusUpdate(status, now) ==
  IF status = "completed" THEN MarkCompletedUpdate(now)
  ELSE [status |-> status]

\* TaskService.update_task_status
ServiceUpdateTaskStatus(s) ==
  /\ sess[s].state = "async"
  /\ \E task_id \in 1..MaxTaskRows, status \in TaskStatuses, now \in Times :
       ServiceUpdate(s, "update_task_status", task_id, StatusUpdate(status, now))
  /\ UNCHANGED <<db, guideVars>>

\* get_db_session hands every request a session of its own: a handler is
\* the first and only call on it
FreshSession(s) == sess[s].state = "async" /\ sess[s].ret.op = "none"

\* handle_create_task: TaskService.create_task and the TaskResponse made
\* of what it returns
HandleCreateTask(s) == FreshSession(s) /\ ServiceCreateTask(s)

\* handle_update_task_status: TaskService.update_task_status and the
\* TaskResponse made of what it returns
HandleUpdateTaskStatus(s) == FreshSession(s) /\ ServiceUpdateTaskStatus(s)

\* handle_update_task: the task is looked up and returned as it is
HandleUpdateTask(s) ==
  /\ FreshSession(s)
  /\ \E task_id \in 1..MaxTaskRows, task_update \in TaskUpdates :
       LET task == GetTask(s, task_id) IN
       sess' = [sess EXCEPT ![s].ret =
                  [Returned("handle_update_task", task_id, task,
                            IF task = None THEN "NotFoundError" ELSE "")
                     EXCEPT !.arg = task_update]]
  /\ UNCHANGED <<db, guideVars>>

\* handle_delete_task: BaseRepository.delete (get, delete, flush) and the
\* message made of the deleted task
HandleDeleteTask(s) ==
  /\ FreshSession(s)
  /\ \E task_id \in 1..MaxTaskRows :
       LET task == GetTask(s, task_id) IN
       IF task = None
         THEN sess' = [sess EXCEPT ![s].ret =
                         Returned("handle_delete_task", task_id, None, "NotFoundError")]
         ELSE /\ ~TaskLocked(s, task_id)
              /\ sess' = [sess EXCEPT
                            ![s].tpending = {r \in @ : r.id # task_id},
                            ![s].tgone = @ \cup {task_id},
                            ![s].ret = Returned("handle_delete_task", task_id, task, "")]
  /\ UNCHANGED <<db, guideVars>>

\* handle_delete_user: BaseRepository.delete (get, delete, flush) and the
\* message made of the deleted user; cascade_delete takes the user's
\* tasks along
HandleDeleteUser(s) ==
  /\ FreshSession(s)
  /\ \E user_id \in 1..MaxUserRows :
       LET user == Get(s, user_id)
           tasks == {r \in VisibleTasks(s) : r.user_id = user_id}
       IN
       IF user = None
         THEN sess' = [sess EXCEPT ![s].ret =
                         Returned("handle_delete_user", user_id, None, "NotFoundError")]
         ELSE /\ ~UserLocked(s, user_id)
              /\ \A r \in tasks : ~TaskLocked(s, r.id)
              /\ sess' = [sess EXCEPT
                            ![s].pending = {r \in @ : r.id # user_id},
                            ![s].gone = @ \cup {user_id},
                            ![s].tpending = @ \ tasks,
                            ![s].tgone = @ \cup Ids(tasks),
                            ![s].ret = Returned("handle_delete_user", user_id, user, "")]
  /\ UNCHANGED <<db, guideVars>>

\* a user has been created and committed before the first task is
InitTasks ==
  /\ fs = [doc |-> <<"a">>, md |-> "file", idx |-> "missing",
           asset |-> "missing", link |-> "none", lib |-> "ok"]
  /\ pc = "idle" /\ kind = "none" /\ path = <<>> /\ safe = <<>>
  /\ meta = NoMeta /\ cand = 1 /\ content = NoContent /\ ops = <<>>
  /\ resp = NoResp /\ handles = {} /\ opened = <<>>
  /\ lnk = NoLnk /\ crumb = NoCrumb /\ hist = NoHist
  /\ db = [NoDb EXCEPT !.users = {[id |-> 1, username |-> "ann"]}, !.next_id = 2]
  /\ sess = NoSess
  /\ mw = NoMw

\* the callers of the two repositories' mark_completed
NextTaskMarks ==
  \E s \in SessionIds :
    \/ OpenSession(s)
    \/ RepoCreateTask(s)
    \/ RepoMarkCompleted(s)
    \/ ScopeCommit(s)
    \/ ScopeRollback(s)
    \/ ServiceCreateTask(s)
    \/ ServiceMarkCompleted(s)
    \/ CloseAsync(s)

SpecTaskMarks == InitTasks /\ [][NextTaskMarks]_vars

\* no other session is open: the calls come one after another
Alone(s) == \A t \in SessionIds \ {s} : sess[t].state = "closed"

\* the callers of TaskService: any number of calls on a session, one
\* session after another
NextTasks ==
  \E s \in SessionIds :
    \/ Alone(s) /\ OpenSession(s)
    \/ Alone(s) /\ ServiceCreateTask(s)
    \/ Alone(s) /\ ServiceMarkCompleted(s)
    \/ Alone(s) /\ ServiceMarkInProgress(s)
    \/ Alone(s) /\ ServiceMarkCancelled(s)
    \/ Alone(s) /\ ServiceUpdateTaskStatus(s)
    \/ Alone(s) /\ CloseAsync(s)

SpecTasks == InitTasks /\ [][NextTasks]_vars

\* the requests of the API, each in the session get_db_session makes for it
NextRequests ==
  \E s \in SessionIds :
    \/ OpenSession(s)
    \/ HandleCreateTask(s)
    \/ HandleUpdateTask(s)
    \/ HandleUpdateTaskStatus(s)
    \/ HandleDeleteTask(s)
    \/ HandleDeleteUser(s)
    \/ CloseAsync(s)

SpecRequests == InitTasks /\ [][NextRequests]_vars

\* ------------------------------------------------------ transaction_scope
(* The callers of transaction_scope: UserService.create_user and            *)
(* update_user through execute_in_transaction, and a caller that uses the   *)
(* context manager itself with either flag set either way.                  *)

\* no username is given: UserUpdate.username has not been set, the body
\* creates no user
Unset == ""

\* async with transaction_scope(session, auto_commit, rollback_on_exception)
\* around a body that creates at most one user and then returns or raises
TxnRun(s) ==
  /\ sess[s].state = "async"
  /\ sess[s].call.step \notin {"checked", "flushed"}
  /\ \E auto_commit, rollback_on_exception \in BOOLEAN,
        end \in {"returns"} \cup BodyExceptions,
        commit \in CommitOutcomes,
        u \in Usernames \cup {Unset} :
       LET flushed == u # Unset /\ ~UniqueViolation(u)
           body == IF u # Unset /\ UniqueViolation(u) THEN "IntegrityError" ELSE end
           rec == IF flushed
                    THEN [sess[s] EXCEPT
                            !.pending = @ \cup {[id |-> db.next_id, username |-> u]}]
                    ELSE sess[s]
           scope == TransactionScope(body, auto_commit, rollback_on_exception, commit)
           st == AfterCalls(scope.calls, [db |-> db, rec |-> rec])
       IN /\ flushed => db.next_id <= MaxUserRows
          /\ sess' = [sess EXCEPT ![s] = [st.rec EXCEPT !.scope = scope]]
          /\ db' = IF flushed THEN [st.db EXCEPT !.next_id = @ + 1] ELSE st.db
  /\ UNCHANGED guideVars

\* UserService.update_user: the get, the username check, repository.update
\* and the commit, inside execute_in_transaction
ServiceUpdateUser(s) ==
  /\ sess[s].state = "async"
  /\ sess[s].call.step \notin {"checked", "flushed"}
  /\ \E user_id \in 1..MaxUserRows, username \in Usernames \cup {Unset},
        commit \in CommitOutcomes :
       LET user == Get(s, user_id)
           renamed == user # None /\ username # Unset /\ username # user.username
           body == IF user = None THEN "NotFoundError"
                   ELSE IF renamed /\ UsernameExists(s, username) THEN "DuplicateError"
                   ELSE IF renamed /\ UniqueViolation(username) THEN "IntegrityError"
                   ELSE "returns"
           row == IF renamed THEN [user EXCEPT !.username = username] ELSE user
           failed == IF body # "returns" THEN body
                     ELSE IF commit # "ok" THEN commit ELSE ""
           rec == [(IF body = "returns"
                      THEN [sess[s] EXCEPT
                              !.pending = {r \in @ : r.id # user_id} \cup {row}]
                      ELSE sess[s])
                     EXCEPT !.ret = Returned("update_user", user_id,
                                             IF failed = "" THEN row ELSE None,
                                             failed)]
           st == ExecuteInTransaction(s, rec, body, commit)
       IN /\ body = "returns" => ~UserLocked(s, user_id)
          /\ sess' = [sess EXCEPT ![s] = st.rec]
          /\ db' = st.db
  /\ UNCHANGED guideVars

InitTxn == InitLinks

\* the scopes are entered and left one after another, on one session
NextTxn ==
  \E s \in {"s1"} :
    \/ OpenSession(s)
    \/ TxnRun(s)
    \/ ServiceCheck(s)
    \/ ServiceInsert(s)
    \/ ServiceCommit(s)
    \/ ServiceUpdateUser(s)
    \/ CloseAsync(s)

SpecTxn == InitTxn /\ [][NextTxn]_vars

\* ================================================================= claims

Range(seq) == {seq[i] : i \in 1..Len(seq)}

\* The strings the claims speak of, stated without the program's own tests.
ClaimHasDotDot(s) == \E i \in 1..(Len(s) - 1) : s[i] = "." /\ s[i + 1] = "."

ClaimHasBadChar(s) == \E i \in 1..Len(s) : s[i] \in {"<", ">", "|", ":", "*", "?"}

\* Positions a request is in before its validation step has run.
BeforeValidation == {"idle", "doc_validate", "asset_serve", "route_check"}

\* C1: every request string that contains ".." fails validation, whatever
\* else it holds: the document and asset validators and the route helper
\* reject it, the request never goes past its validation step, no logical
\* path is produced and no file is looked up; the document handler and the
\* route helper answer 400.
C1_TraversalRejected ==
  ClaimHasDotDot(path) =>
    /\ pc \in BeforeValidation \cup {"done"}
    /\ pc = "done" =>
         /\ safe = <<>>
         /\ ops = <<"validate">>
         /\ resp.status # 200
         /\ kind \in {"doc", "route"} => resp.status = 400
         /\ kind = "doc" => resp.detail = [msg |-> "Invalid characters in path: ",
                                           arg |-> path]

\* C1 witness: a document request whose string has ".." between a leading
\* and a trailing slash has been rejected.
C1_Witness ==
  /\ kind = "doc" /\ pc = "done" /\ resp.status = 400
  /\ Len(path) > 2 /\ path[1] = "/" /\ path[Len(path)] = "/"
  /\ ClaimHasDotDot(path)

\* C2: a logical path that left validation (document or asset) contains
\* neither ".." nor one of < > | : * ?, and a request string containing one
\* of them never gets past validation: it is rejected instead.
C2_SafePathClean ==
  /\ kind \in {"doc", "asset"} => (~ClaimHasDotDot(safe) /\ ~ClaimHasBadChar(safe))
  /\ (kind \in {"doc", "asset"} /\ (ClaimHasDotDot(path) \/ ClaimHasBadChar(path))) =>
       /\ pc \in BeforeValidation \cup {"done"}
       /\ pc = "done" => (safe = <<>> /\ resp.status \in {400, 500}
                          /\ ops = <<"validate">>)

\* C2 witness: an asset path with a dot in it passed validation after its
\* slashes were stripped.
C2_Witness ==
  /\ kind = "asset" /\ pc = "done" /\ "exists" \in Range(ops)
  /\ HasChar(safe, ".") /\ safe # path

\* C3: the empty document path does not fail validation; its logical path
\* is exactly "index", so the response (the markdown library not failing)
\* is 200 exactly when one of the candidate files index.md, index/index.md
\* is a readable regular file, and the root route of the guide router serves the name "index" as well.
C3_EmptyPathIsIndex ==
  /\ (kind = "doc" /\ path = <<>> /\ pc # "doc_validate") =>
       /\ safe = IndexStr
       /\ resp.status # 400
       /\ (pc = "done" /\ "render_error" \notin Range(ops)) =>
            (resp.status = 200 <=>
               (fs.doc = IndexStr /\ "file" \in {fs.md, fs.idx}))
  /\ (kind = "route" /\ path = <<>> /\ pc # "route_check") =>
       /\ safe = IndexStr
       /\ resp.status # 400

\* C3 witness: the empty document path was served from the index document.
C3_Witness ==
  /\ kind = "doc" /\ path = <<>> /\ pc = "done" /\ resp.status = 200
  /\ meta.path = IndexStr

\* C4 (as claimed): a document or asset request whose path fails validation
\* is answered with status 400.
C4_InvalidPathIs400 ==
  (pc = "done" /\ kind \in {"doc", "asset"} /\ safe = <<>>
   /\ (IF kind = "doc" THEN ~ValidatePath(fs, path).ok
       ELSE ~ValidateAssetPath(path).ok)) =>
    resp.status = 400

\* C5 (as claimed): an asset request whose validated path names no regular
\* file under <docs_root>/assets is answered with status 404.
C5_MissingAssetIs404 ==
  (pc = "done" /\ kind = "asset" /\ ValidateAssetPath(path).ok
   /\ FileStatus(fs, PathJoin(AssetsDir, safe)) # "file") =>
    resp.status = 404

\* C6 (as claimed): for a validated document path the first candidate of
\* <p>.md, <p>/index.md that exists as a regular file is the one whose
\* content is served (the markdown library not failing); when neither
\* exists the answer is 404 with the message "Document not found".
C6_FirstExistingWins ==
  (kind = "doc" /\ pc = "done" /\ resp.status # 400
   /\ "render_error" \notin Range(ops)) =>
    LET pp == PossiblePaths(safe)
        regular(i) == FileStatus(fs, pp[i]) \in {"file", "unreadable"}
        served(i) ==
          /\ resp.status = 200
          /\ resp.body[1].content = ProcessRelativeLinks(FileContent(fs, pp[i]), safe)
    IN IF regular(1) THEN served(1)
       ELSE IF regular(2) THEN served(2)
       ELSE /\ resp.status = 404
            /\ resp.detail = [msg |-> "Document not found: ", arg |-> safe]

\* C7 (as claimed): a document request during which reading an existing
\* file raised an I/O error is answered with status 500.
C7_ReadFailureIs500 ==
  (kind = "doc" /\ pc = "done" /\ "read_error" \in Range(ops)) => resp.status = 500

EtcPasswd ==
  <<".",".","/",".",".","/","e","t","c","/","p","a","s","s","w","d">>

StepRank(op) ==
  CASE op \in {"validate", "resolve"} -> 1
    [] op = "metadata" -> 2
    [] op \in {"exists", "open", "read", "read_error", "close"} -> 3
    [] op = "rewrite" -> 4
    [] op \in {"render", "render_error"} -> 5
    [] OTHER -> 6

\* C8: the steps of a request run in the order validate, locate/read,
\* rewrite-links, render-markdown, wrap-in-template, each pure step at most
\* once, and the request stops at the first failing step: a path with ".."
\* or a disallowed character (such as ../../etc/passwd) is answered 400
\* after the validation step alone; a 400 response never follows a file
\* existence check, open or read; a 404 response never follows rewriting,
\* rendering or templating; a 200 response follows all of them.
C8_PipelineOrder ==
  /\ \A i, j \in 1..Len(ops) :
       i < j => /\ StepRank(ops[i]) <= StepRank(ops[j])
                /\ ops[i] = ops[j] => StepRank(ops[i]) = 3
  /\ (kind = "doc" /\ path # <<>> /\ pc # "doc_validate"
      /\ (ClaimHasDotDot(path) \/ ClaimHasBadChar(path))) =>
       (pc = "done" /\ resp.status = 400 /\ ops = <<"validate">>)
  /\ (kind \in {"doc", "route"} /\ pc = "done" /\ resp.status = 400) =>
       /\ Range(ops) \subseteq {"validate", "resolve"}
       /\ content = NoContent
  /\ (kind = "doc" /\ pc = "done" /\ resp.status = 404) =>
       /\ Range(ops) \cap {"rewrite", "render", "template"} = {}
       /\ content = NoContent
  /\ (kind = "doc" /\ pc = "done" /\ resp.status = 200) =>
       {"validate", "metadata", "exists", "open", "read",
        "rewrite", "render", "template"} \subseteq Range(ops)

\* C8 witness: the request for ../../etc/passwd was answered 400 after the
\* validation step alone.
C8_Witness ==
  /\ kind = "doc" /\ path = EtcPasswd /\ pc = "done"
  /\ resp.status = 400 /\ ops = <<"validate">>

\* C9 (as claimed): with document a/b being served, [Back](../other) is
\* rewritten to a link whose target ends in /guide/other.
C9_BackLinkOneLevelUp ==
  (/\ lnk.embed = "link" /\ lnk.lead = <<>>
   /\ lnk.text = <<"B","a","c","k">>
   /\ lnk.url = <<".",".","/","o","t","h","e","r">>
   /\ lnk.path = <<"a","/","b">>) =>
    LET m == MatchLinkAt(lnk.out, 1) IN
      /\ m.ok /\ m.last = Len(lnk.out) /\ m.text = lnk.text
      /\ EndsWith(m.url, <<"/","g","u","i","d","e","/","o","t","h","e","r">>)

ClaimImageExts ==
  { <<".","j","p","g">>, <<".","j","p","e","g">>, <<".","p","n","g">>,
    <<".","g","i","f">>, <<".","s","v","g">>, <<".","w","e","b","p">> }

\* C10 (as claimed): an image embed whose relative target has a known image
\* extension and starts with neither ../ nor assets/ comes out of
\* _process_relative_links as ![alt](/guide/assets/<target>), whatever its
\* alt text and the current document path.
C10_ImageToAssets ==
  (/\ lnk.embed = "image"
   /\ \E ext \in ClaimImageExts : EndsWith(LowerStr(lnk.url), ext)
   /\ ~StartsWith(lnk.url, <<".",".","/">>)
   /\ ~StartsWith(lnk.url, <<"a","s","s","e","t","s","/">>)
   /\ ~StartsWith(lnk.url, <<"/">>)
   /\ ~StartsWith(lnk.url, <<"h","t","t","p">>)) =>
    lnk.out = lnk.lead \o <<"!", "[">> \o lnk.text \o <<"]", "(">>
              \o <<"/","g","u","i","d","e","/","a","s","s","e","t","s","/">>
              \o lnk.url \o <<")">>

\* C11 (as claimed): the link substitution pass never matches any part of
\* an image embed: the link pass leaves the embed as it was written, and
\* the result of _process_relative_links is the one the image rule alone
\* gives.
C11_LinkPassSkipsImages ==
  lnk.embed = "image" =>
    /\ lnk.links = lnk.content
    /\ lnk.out = lnk.lead \o ReplaceImage(lnk.text, lnk.url)

\* The rule of C12 computed from the claim's words: the part of P before
\* its last slash, joined with the target (less one leading ../), less a
\* trailing .md, behind /guide/.
ClaimRelative(url) ==
  /\ ~StartsWith(url, <<"h","t","t","p",":","/","/">>)
  /\ ~StartsWith(url, <<"h","t","t","p","s",":","/","/">>)
  /\ ~StartsWith(url, <<"#">>)
  /\ ~StartsWith(url, <<"/">>)

ClaimParent(p) ==
  LET slashes == {i \in 1..Len(p) : p[i] = "/"} IN
    IF slashes = {} THEN <<>>
    ELSE SubSeq(p, 1, (CHOOSE i \in slashes : \A j \in slashes : j <= i) - 1)

ClaimHref(p, url) ==
  LET rest == IF StartsWith(url, <<".",".","/">>) THEN SubSeq(url, 4, Len(url))
              ELSE url
      parent == ClaimParent(p)
      joined == IF parent = <<>> THEN rest ELSE parent \o <<"/">> \o rest
      stem == IF EndsWith(joined, <<".","m","d">>)
                THEN SubSeq(joined, 1, Len(joined) - 3) ELSE joined
  IN <<"/","g","u","i","d","e","/">> \o stem

ClaimLinkRewritten ==
  lnk.out = lnk.lead \o <<"[">> \o lnk.text \o <<"]", "(">>
            \o ClaimHref(lnk.path, lnk.url) \o <<")">>

\* C12 (as claimed): every link with a relative target comes out with its
\* text unchanged and the href /guide/ + (P without its last segment joined
\* with the target, less a leading ../ and a trailing .md).
C12_RelativeLinkRule ==
  (lnk.embed = "link" /\ ClaimRelative(lnk.url)) => ClaimLinkRewritten

\* C12 (amended): the rule holds for every link whose text is not empty;
\* the empty-text link [](target) is no match of the link pattern and stays
\* as written.
C12_RelativeLinkRuleNonEmptyText ==
  /\ (lnk.embed = "link" /\ ClaimRelative(lnk.url) /\ lnk.text # <<>>) =>
       ClaimLinkRewritten
  /\ (lnk.embed = "link" /\ lnk.text = <<>>) => lnk.out = lnk.content

\* C12 witness: "see [Back](../other.md)" in document a/b/c has become
\* "see [Back](/guide/a/b/other)".
C12_Witness ==
  /\ lnk.embed = "link" /\ lnk.lead = <<"s","e","e"," ">>
  /\ lnk.text = <<"B","a","c","k">>
  /\ lnk.url = <<".",".","/","o","t","h","e","r",".","m","d">>
  /\ lnk.path = <<"a","/","b","/","c">>
  /\ lnk.out = <<"s","e","e"," ","[","B","a","c","k","]","(",
                 "/","g","u","i","d","e","/","a","/","b","/",
                 "o","t","h","e","r",")">>

\* C13: a link or image whose target starts with http://, https:// or /,
\* and a link whose target starts with #, leaves _process_relative_links
\* exactly as it was written, for every current document path.
C13_AbsoluteTargetsUnchanged ==
  (\/ /\ lnk.embed \in {"link", "image"}
      /\ \/ StartsWith(lnk.url, <<"h","t","t","p",":","/","/">>)
         \/ StartsWith(lnk.url, <<"h","t","t","p","s",":","/","/">>)
         \/ StartsWith(lnk.url, <<"/">>)
   \/ /\ lnk.embed = "link"
      /\ StartsWith(lnk.url, <<"#">>)) =>
    lnk.out = lnk.content

\* C13 witness: an image with alt text and an absolute target that ends in
\* an image extension went through both passes of a nested document
\* unchanged.
C13_Witness ==
  /\ lnk.embed = "image" /\ lnk.text = <<"L","o","g","o">>
  /\ lnk.url = <<"h","t","t","p","s",":","/","/","x","/","y",".","p","n","g">>
  /\ lnk.path = <<"a","/","b">>
  /\ lnk.out = lnk.content /\ lnk.links = lnk.content

\* Containment as the claim means it: the location is the root or lies
\* under it, component by component.
ClaimInsideRoot(abs) == abs = <<"/","d">> \/ StartsWith(abs, <<"/","d","/">>)

\* C14 (as claimed): a document path that _validate_path accepted resolves
\* inside the documents root, and a request whose stripped path resolves
\* outside it, a sibling directory named like the root included, ends with
\* the 400 of InvalidPath.
C14_AcceptedInsideRoot ==
  /\ (kind = "doc" /\ pc \notin {"idle", "doc_validate"} /\ resp.status # 400) =>
       LET r == Resolve(fs, safe) IN ~r.raised /\ ClaimInsideRoot(r.value)
  /\ (kind = "doc" /\ pc = "done" /\ path # <<>>) =>
       LET r == Resolve(fs, Strip(path, "/")) IN
         (~r.raised /\ ~ClaimInsideRoot(r.value)) => resp.status = 400

C16_NoHandleLeft ==
  /\ pc \in {"idle", "done"} => handles = {}
  /\ handles # {} => (pc = "doc_read" /\ handles = {PossiblePaths(safe)[cand]})
  /\ (kind = "doc" /\ pc = "done" /\ resp.status = 400) =>
       (opened = <<>> /\ "open" \notin Range(ops))
  /\ \A i, j \in 1..Len(opened) : i # j => opened[i] # opened[j]
  /\ kind = "doc" => Range(opened) \subseteq Range(PossiblePaths(safe))

\* C16 witness: a document request whose first candidate could not be read
\* was served from the second: both were opened once, none is open.
C16_Witness ==
  /\ kind = "doc" /\ pc = "done" /\ resp.status = 200
  /\ "read_error" \in Range(ops)
  /\ opened = PossiblePaths(safe) /\ handles = {}

\* C17 (as claimed): a document request that failed for a reason other than
\* validation or lookup (reading a file raised, the markdown library
\* raised) is answered 500 with the fixed detail "Error processing
\* document", and every asset request answered 500 carries the fixed detail
\* "Error serving asset"; no text of the exception is in the response.
C17_OtherFailuresGeneric500 ==
  /\ (kind = "doc" /\ pc = "done" /\ resp.status # 200
      /\ Range(ops) \cap {"read_error", "render_error"} # {}) =>
       resp = [status |-> 500,
               detail |-> [msg |-> "Error processing document", arg |-> <<>>],
               body |-> <<>>]
  /\ (kind = "asset" /\ pc = "done" /\ resp.status \notin {200, 400, 404}) =>
       resp = [status |-> 500,
               detail |-> [msg |-> "Error serving asset", arg |-> <<>>],
               body |-> <<>>]

\* The breadcrumbs the claim of C18 describes: "Home", then one label per
\* segment of the path in order, none for "index".
ClaimBreadcrumbs(p) ==
  IF p = <<"i","n","d","e","x">> THEN << <<"H","o","m","e">> >>
  ELSE << <<"H","o","m","e">> >>
       \o [i \in 1..Len(Split(p, "/")) |-> Label(Split(p, "/")[i])]

ClaimLastSegmentTitle(p) == Label(Split(p, "/")[Len(Split(p, "/"))])

\* C18 (as claimed): the metadata of a validated document path has the
\* breadcrumbs "Home" plus one label per path segment in root-to-current
\* order (only "Home" for "index"), and its title is the last segment with
\* hyphens turned into spaces, title-cased.
C18_BreadcrumbsAndTitle ==
  (kind = "doc" /\ meta # NoMeta) =>
    /\ meta.breadcrumbs = ClaimBreadcrumbs(safe)
    /\ meta.title = ClaimLastSegmentTitle(safe)

\* C18 (amended): the same, but the title of the path "index" is the fixed
\* "Documentation Home".
C18_BreadcrumbsAndTitleButIndex ==
  (kind = "doc" /\ meta # NoMeta) =>
    /\ meta.breadcrumbs = ClaimBreadcrumbs(safe)
    /\ meta.title = IF safe = <<"i","n","d","e","x">>
                      THEN <<"D","o","c","u","m","e","n","t","a","t","i","o","n",
                             " ","H","o","m","e">>
                      ELSE ClaimLastSegmentTitle(safe)

\* C18 witness: the metadata of my-doc/x is Home / My Doc / X, titled X.
C18_Witness ==
  /\ kind = "doc" /\ safe = <<"m","y","-","d","o","c","/","x">>
  /\ meta.breadcrumbs = << <<"H","o","m","e">>, <<"M","y"," ","D","o","c">>, <<"X">> >>
  /\ meta.title = <<"X">>

\* C19: for a non-empty breadcrumb list the rendered trail has one element
\* per entry, in order: the last is plain text, every other one a link; the
\* first link goes to /guide/ and the link of a later entry to /guide/
\* followed by the labels after "Home" up to that entry, joined with "/".
C19_BreadcrumbTrail ==
  (crumb.applied /\ crumb.breadcrumbs # <<>>) =>
    LET b == crumb.breadcrumbs
        h == crumb.html
        n == Len(crumb.breadcrumbs)
    IN /\ Len(h) = n
       /\ \A i \in 1..n : h[i].text = b[i]
       /\ h[n].tag = "span" /\ h[n].href = <<>>
       /\ \A i \in 1..(n - 1) : h[i].tag = "a"
       /\ n > 1 => h[1].href = <<"/","g","u","i","d","e","/">>
       /\ \A i \in 2..(n - 1) :
            h[i].href = <<"/","g","u","i","d","e","/">> \o Join(SubSeq(b, 2, i), "/")

\* C19 witness: Home / A / A B / A has been rendered; the third element
\* links to /guide/A/A B and the last one is plain text.
C19_Witness ==
  /\ crumb.applied
  /\ crumb.breadcrumbs = << <<"H","o","m","e">>, <<"A">>, <<"A"," ","B">>, <<"A">> >>
  /\ crumb.html[3] = [tag |-> "a", text |-> <<"A"," ","B">>,
                      href |-> <<"/","g","u","i","d","e","/","A","/","A"," ","B">>]
  /\ crumb.html[4] = [tag |-> "span", text |-> <<"A">>, href |-> <<>>]

\* No two rows that one session can see, and no two committed rows, carry
\* the same username.
ClaimUniqueNames ==
  \A s \in SessionIds :
    \A r1, r2 \in db.users \cup sess[s].pending :
      r1.username = r2.username => r1 = r2

\* A step in which session s starts a create_user call for a username that
\* a row of the table (committed, or flushed by s itself) already carries:
\* the call raises the error of its layer with the text "already exists",
\* and no row is added anywhere.
ClaimDuplicateStep ==
  \A s \in SessionIds, u \in Usernames :
    (/\ sess[s].state \in {"sync", "async"}
     /\ sess[s].call.step \notin {"checked", "flushed"}
     /\ sess'[s].call # sess[s].call
     /\ sess'[s].call.username = u
     /\ \E r \in db.users \cup sess[s].pending : r.username = u) =>
      /\ sess'[s].call.step = "done"
      /\ sess'[s].call.error = IF sess[s].state = "sync" THEN "ValueError"
                               ELSE "DuplicateError"
      /\ sess'[s].call.msg = "already exists"
      /\ db' = db
      /\ \A t \in SessionIds : sess'[t].pending \subseteq sess[t].pending

\* C20: create_user for a username that already exists raises an error
\* saying "already exists" (ValueError in the database/operations
\* repository, DuplicateError in UserService) and adds no record, and after
\* any sequence of create_user calls at most one user has a given username.
C20_DuplicateUsernameRejected ==
  []ClaimUniqueNames /\ [][ClaimDuplicateStep]_vars

\* C20 witness: the repository raised ValueError and the service raised
\* DuplicateError for the name "ann", of which one row is committed.
C20_Witness ==
  /\ \E s \in SessionIds :
       sess[s].call = [op |-> "repo_create", username |-> "ann", step |-> "done",
                       error |-> "ValueError", msg |-> "already exists", row |-> 0]
  /\ \E s \in SessionIds :
       sess[s].call = [op |-> "service_create", username |-> "ann",
                       step |-> "done", error |-> "DuplicateError",
                       msg |-> "already exists", row |-> 0]
  /\ Cardinality({r \in db.users : r.username = "ann"}) = 1

\* a session_scope block of session s is left in this step
ClaimScopeLeft(s) == sess[s].state = "sync" /\ sess'[s].state = "closed"

\* the row the session's last create_user call wrote, if it wrote one
ClaimWrote(s) == sess[s].call.op = "repo_create" /\ sess[s].call.row # 0

ClaimScopeStep ==
  \A s \in SessionIds :
    ClaimScopeLeft(s) =>
      /\ sess'[s].pending = {}
      /\ sess'[s].scope.kind = "session_scope"
      /\ IF sess'[s].scope.body = "returns"
           THEN /\ sess[s].pending \subseteq db'.users
                /\ sess'[s].scope.raised = ""
           ELSE /\ db'.users = db.users
                /\ sess[s].pending \cap db'.users = {}
                /\ sess'[s].scope.body \in BodyExceptions
                /\ sess'[s].scope.raised = sess'[s].scope.body

ClaimScopeLater ==
  \A s, t \in SessionIds :
    (/\ sess[s].state = "closed"
     /\ sess[s].scope.kind = "session_scope"
     /\ ClaimWrote(s)
     /\ sess[t].state # "closed") =>
      ((sess[s].call.row \in Ids(Visible(t))) <=> (sess[s].scope.body = "returns"))

\* C21: the writes of a session_scope block are visible to later sessions
\* exactly when the block is left without an exception: a body that
\* returns has them committed, a body that raises has them all rolled back
\* and its own exception raised on, and either way the session is closed.
C21_ScopeCommitsOrRollsBack == []ClaimScopeLater /\ [][ClaimScopeStep]_vars

C21_Witness ==
  \E s, t \in SessionIds :
    /\ sess[s].state = "closed" /\ sess[t].state = "closed"
    /\ ClaimWrote(s) /\ ClaimWrote(t)
    /\ sess[s].scope.body = "returns" /\ sess[s].call.row \in Ids(db.users)
    /\ sess[t].scope.raised = "RuntimeError" /\ sess[t].call.row \notin Ids(db.users)

\* session t has just looked a user up by id
ClaimGot(t) == sess'[t].ret # sess[t].ret /\ sess'[t].ret.op = "repo_get"

ClaimIsolationStep ==
  \A t \in SessionIds :
    ClaimGot(t) =>
      LET id == sess'[t].ret.id
          row == sess'[t].ret.row
      IN /\ (/\ id \notin Ids(db.users)
             /\ \E s \in SessionIds \ {t} : id \in Ids(sess[s].pending)) =>
               row = None
         /\ id \in Ids(db.users) => (row \in db.users /\ row.id = id)

ClaimMarked(s) ==
  /\ sess'[s].ret # sess[s].ret
  /\ sess'[s].ret.op \in {"repo_mark_completed", "mark_completed"}

ClaimMarkCompletedStep ==
  \A s \in SessionIds :
    ClaimMarked(s) =>
      LET before == GetTask(s, sess'[s].ret.id)
          after == sess'[s].ret.row
      IN IF before # None
           THEN /\ after # None
                /\ after.id = before.id
                /\ after.title = before.title
                /\ after.user_id = before.user_id
                /\ after.status = "completed"
                /\ after.completed_at # NoTime
                /\ after \in sess'[s].tpending
           ELSE sess'[s].ret.op = "repo_mark_completed" =>
                  /\ after = None
                  /\ sess'[s].ret.error = ""
                  /\ db'.tasks = db.tasks
                  /\ \A t \in SessionIds :
                       /\ sess'[t].tpending = sess[t].tpending
                       /\ sess'[t].tgone = sess[t].tgone

\* C23: mark_completed on an existing task, whatever its status, keeps the
\* task's id, title and owner and gives it the status COMPLETED and a
\* completed_at that is not null; TaskRepository.mark_completed of
\* database/operations on a missing id returns None and changes no task.
C23_MarkCompleted == [][ClaimMarkCompletedStep]_vars

C23_Witness ==
  \E s, t \in SessionIds :
    /\ sess[s].ret.op = "repo_mark_completed"
    /\ sess[s].ret.row = None
    /\ VisibleTasks(s) # {}
    /\ sess[t].ret.op = "mark_completed"
    /\ sess[t].ret.row # None
    /\ sess[t].ret.row.completed_at # NoTime

\* session s has just been returned something by handle_update_task
ClaimUpdateHandled(s) ==
  /\ sess'[s].ret # sess[s].ret
  /\ sess'[s].ret.op = "handle_update_task"

\* the task of that id as session s reads it after the step
ClaimStoredAfter(s, id) ==
  LET rows == VisibleOf(db'.tasks, sess'[s].tpending, sess'[s].tgone)
  IN IF \E r \in rows : r.id = id THEN CHOOSE r \in rows : r.id = id ELSE None

ClaimUpdateTaskStep ==
  \A s \in SessionIds :
    ClaimUpdateHandled(s) =>
      LET task_id == sess'[s].ret.id
          task_update == sess'[s].ret.arg
          before == GetTask(s, task_id)
          stored == ClaimStoredAfter(s, task_id)
          returned == sess'[s].ret.row
      IN IF before # None
           THEN /\ sess'[s].ret.error = ""
                /\ returned # None /\ stored # None
                /\ \A f \in DOMAIN task_update :
                     /\ returned[f] = task_update[f]
                     /\ stored[f] = task_update[f]
           ELSE /\ sess'[s].ret.error = "NotFoundError"
                /\ db' = db
                /\ \A t \in SessionIds :
                     /\ sess'[t].tpending = sess[t].tpending
                     /\ sess'[t].tgone = sess[t].tgone

\* C26: after handle_update_task has succeeded for an existing task, the
\* stored task and the TaskResponse returned carry the values of the fields
\* the update request has set; for a missing id it raises NotFoundError and
\* changes nothing.
C26_UpdateTaskApplied == [][ClaimUpdateTaskStep]_vars

\* the request of session s is over: get_db_session closes the session
ClaimRequestOver(s) == sess[s].state = "async" /\ sess'[s].state = "closed"

ClaimDurableStep ==
  \A s \in SessionIds :
    (ClaimRequestOver(s) /\ sess[s].ret.error = "") =>
      /\ sess[s].ret.op = "handle_delete_task" =>
           sess[s].ret.id \notin Ids(db'.tasks)
      /\ sess[s].ret.op = "handle_delete_user" =>
           sess[s].ret.id \notin Ids(db'.users)
      /\ sess[s].ret.op = "update_task_status" =>
           sess[s].ret.row \in db'.tasks

\* C27: a write request that has returned success is durable: once
\* handle_delete_user or handle_delete_task has returned its message, or
\* handle_update_task_status the updated task, the change is committed, so
\* that the tables a later request reads in a new session hold it although
\* the request's own session has been closed.
C27_SuccessfulWritesDurable == [][ClaimDurableStep]_vars

\* every task row there is, committed or written in an open transaction
ClaimAllTasks == db.tasks \cup UNION {sess[s].tpending : s \in SessionIds}

\* C28: in every state the calls of create_task, mark_completed,
\* mark_in_progress, mark_cancelled and update_task_status reach, a task's
\* completed_at is not null exactly when its status is COMPLETED.
C28_CompletedAtIffCompleted ==
  \A r \in ClaimAllTasks : (r.completed_at # NoTime) <=> (r.status = "completed")

\* a transaction_scope on session s has been left in this step
ClaimTransactionLeft(s) ==
  /\ sess'[s].scope # sess[s].scope
  /\ sess'[s].scope.kind = "transaction_scope"

ClaimTransactionStep ==
  \A s \in SessionIds :
    ClaimTransactionLeft(s) =>
      LET scope == sess'[s].scope
          commit_called == \E i \in 1..Len(scope.calls) :
                             scope.calls[i] \in {"commit", "commit_raises"}
          commit_raised == \E i \in 1..Len(scope.calls) :
                             scope.calls[i] = "commit_raises"
          rollback_called == \E i \in 1..Len(scope.calls) :
                               scope.calls[i] = "rollback"
          exception == scope.body # "returns" \/ commit_raised
      IN /\ commit_called <=> (scope.body = "returns" /\ scope.auto_commit)
         /\ rollback_called <=> (exception /\ scope.rollback_on_exception)
         /\ (scope.raised # "") <=> exception
         /\ scope.body # "returns" => scope.raised = scope.body
         /\ exception => db'.users = db.users
         /\ rollback_called => (sess'[s].pending = {} /\ sess'[s].gone = {})

\* create_user or update_user of session s has just raised that a name is
\* taken or a user is missing
ClaimServiceRaised(s) ==
  \/ /\ sess'[s].call # sess[s].call
     /\ sess'[s].call.error = "DuplicateError"
  \/ /\ sess'[s].ret # sess[s].ret
     /\ sess'[s].ret.op = "update_user"
     /\ sess'[s].ret.error \in {"DuplicateError", "NotFoundError"}

ClaimServiceRaisedStep ==
  \A s \in SessionIds :
    ClaimServiceRaised(s) =>
      /\ db' = db
      /\ sess'[s].pending = {}
      /\ sess'[s].gone = {}
      /\ sess'[s].scope.raised \in {"DuplicateError", "NotFoundError"}

\* C24: transaction_scope calls commit exactly when its body completes
\* without an exception and auto_commit is true, calls rollback exactly
\* when an exception is raised inside it, by the body or by the commit, and
\* rollback_on_exception is true, and raises the exception on every time;
\* so when create_user or update_user raises DuplicateError or
\* NotFoundError, nothing of the operation is committed.
C24_TransactionScope ==
  [][ClaimTransactionStep /\ ClaimServiceRaisedStep]_vars

C24_Witness ==
  /\ sess["s1"].scope.kind = "transaction_scope"
  /\ sess["s1"].scope.calls = <<"commit_raises", "rollback">>
  /\ sess["s1"].scope.raised = "OperationalError"
  /\ sess["s1"].ret.op = "update_user"
  /\ sess["s1"].pending = {}
  /\ db.users # {}

\* ------------------------------------------------- error handling middleware
(* handle_application_exceptions wraps call_next: a response passes through, *)
(* an exception is matched against the except clauses in their order.        *)

\* the direct base class of each exception class a request can raise
Bases ==
  [NotFoundError     |-> "ServiceError",
   DuplicateError    |-> "ServiceError",
   ValidationError   |-> "ServiceError",
   TaskNotFoundError |-> "TaskError",
   TaskError         |-> "ServiceError",
   ServiceError      |-> "Exception",
   IntegrityError    |-> "DatabaseError",
   OperationalError  |-> "DatabaseError",
   DatabaseError     |-> "SQLAlchemyError",
   SQLAlchemyError   |-> "Exception",
   HTTPException     |-> "Exception",
   ValueError        |-> "Exception",
   Exception         |-> ""]

\* the classes whose instances the model raises
RaisedClasses ==
  {"NotFoundError", "DuplicateError", "ValidationError", "TaskNotFoundError",
   "IntegrityError", "OperationalError", "SQLAlchemyError", "HTTPException",
   "ValueError", "Exception"}

\* str(e) of the exception raised
ExcTexts == {"User with ID 7 not found", "Username 'ann' already exists",
             "UNIQUE constraint failed: users.username", "database is locked",
             "boom"}

\* what call_next does: it returns a response ("none") or raises
MwInputs ==
  [applied : {FALSE}, class : RaisedClasses \cup {"none"}, text : ExcTexts,
   out : {NoOut}]

RECURSIVE IsInstance(_, _)
IsInstance(class, base) ==
  IF class = "" THEN FALSE
  ELSE IF class = base THEN TRUE
  ELSE IsInstance(Bases[class], base)

\* create_error_response: the body's message, status_code and code
CreateErrorResponse(status_code, message, error_code) ==
  [NoOut EXCEPT !.kind = "error", !.status_code = status_code,
                !.message = message, !.code = error_code]

\* Faulty variant of HandleApplicationExceptions: the clause of
\* SQLAlchemyError stands before the clause of IntegrityError.
HandleApplicationExceptionsDatabaseFirst(class, text) ==
  IF class = "none"
    THEN [NoOut EXCEPT !.kind = "response", !.status_code = 200]
  ELSE IF IsInstance(class, "NotFoundError")
    THEN CreateErrorResponse(404, <<text>>, "RESOURCE_NOT_FOUND")
  ELSE IF IsInstance(class, "DuplicateError")
    THEN CreateErrorResponse(409, <<text>>, "DUPLICATE_RESOURCE")
  ELSE IF IsInstance(class, "SQLAlchemyError")
    THEN CreateErrorResponse(500, <<"A database error occurred">>,
                             "DATABASE_ERROR")
  ELSE IF IsInstance(class, "IntegrityError")
    THEN CreateErrorResponse(400, <<"Data integrity constraint violated">>,
                             "INTEGRITY_ERROR")
  ELSE IF IsInstance(class, "HTTPException")
    THEN [NoOut EXCEPT !.kind = "raise", !.class = class, !.text = text]
  ELSE CreateErrorResponse(500, <<"An unexpected error occurred">>,
                           "INTERNAL_ERROR")

\* handle_application_exceptions: the try and its except clauses in order
HandleApplicationExceptions(class, text) ==
  IF class = "none"
    THEN [NoOut EXCEPT !.kind = "response", !.status_code = 200]
  ELSE IF IsInstance(class, "NotFoundError")
    THEN CreateErrorResponse(404, <<text>>, "RESOURCE_NOT_FOUND")
  ELSE IF IsInstance(class, "DuplicateError")
    THEN CreateErrorResponse(409, <<text>>, "DUPLICATE_RESOURCE")
  ELSE IF IsInstance(class, "IntegrityError")
    THEN CreateErrorResponse(400, <<"Data integrity constraint violated">>,
                             "INTEGRITY_ERROR")
  ELSE IF IsInstance(class, "SQLAlchemyError")
    THEN CreateErrorResponse(500, <<"A database error occurred">>,
                             "DATABASE_ERROR")
  ELSE IF IsInstance(class, "HTTPException")
    THEN [NoOut EXCEPT !.kind = "raise", !.class = class, !.text = text]
  ELSE CreateErrorResponse(500, <<"An unexpected error occurred">>,
                           "INTERNAL_ERROR")

\* one request goes through the middleware
MiddlewareApply ==
  /\ ~mw.applied
  /\ mw' = [mw EXCEPT !.applied = TRUE,
                      !.out = HandleApplicationExceptions(mw.class, mw.text)]
  /\ UNCHANGED <<fs, pc, kind, path, safe, meta, cand, content, ops, resp,
                 handles, opened, lnk, crumb, hist, db, sess>>

InitErrors ==
  /\ fs = [doc |-> <<"a">>, md |-> "file", idx |-> "missing",
           asset |-> "missing", link |-> "none", lib |-> "ok"]
  /\ pc = "idle"
  /\ kind = "none"
  /\ path = <<>>
  /\ safe = <<>>
  /\ meta = NoMeta
  /\ cand = 1
  /\ content = NoContent
  /\ ops = <<>>
  /\ resp = NoResp
  /\ handles = {}
  /\ opened = <<>>
  /\ lnk = NoLnk
  /\ crumb = NoCrumb
  /\ hist = NoHist
  /\ db = NoDb
  /\ sess = NoSess
  /\ mw \in MwInputs

NextErrors == MiddlewareApply

SpecErrors == InitErrors /\ [][NextErrors]_vars

\* the message of the body holds the exception's text
ClaimBodyHasText == \E i \in 1..Len(mw.out.message) : mw.out.message[i] = mw.text

\* the status and the code of the error response made
ClaimGave(status_code, error_code) ==
  /\ mw.out.kind = "error"
  /\ mw.out.status_code = status_code
  /\ mw.out.code = error_code

\* C25: handle_application_exceptions gives every exception of a request
\* one outcome, by first match: NotFoundError 404 RESOURCE_NOT_FOUND,
\* DuplicateError 409 DUPLICATE_RESOURCE, IntegrityError 400 INTEGRITY_ERROR
\* and never the database 500, any other SQLAlchemyError 500 DATABASE_ERROR,
\* HTTPException raised again unchanged, anything else 500 INTERNAL_ERROR;
\* no body with status 500 holds the exception's text.
C25_ExceptionMapping ==
  (mw.applied /\ mw.class # "none") =>
    /\ mw.class = "NotFoundError" => ClaimGave(404, "RESOURCE_NOT_FOUND")
    /\ mw.class = "DuplicateError" => ClaimGave(409, "DUPLICATE_RESOURCE")
    /\ mw.class = "IntegrityError" => ClaimGave(400, "INTEGRITY_ERROR")
    /\ mw.class \in {"OperationalError", "SQLAlchemyError"} =>
         ClaimGave(500, "DATABASE_ERROR")
    /\ mw.class = "HTTPException" =>
         /\ mw.out.kind = "raise"
         /\ mw.out.class = mw.class
         /\ mw.out.text = mw.text
    /\ mw.class \in {"ValidationError", "TaskNotFoundError", "ValueError",
                     "Exception"} =>
         ClaimGave(500, "INTERNAL_ERROR")
    /\ mw.out.status_code = 500 => ~ClaimBodyHasText

C25_Witness ==
  /\ mw.applied
  /\ mw.class = "IntegrityError"
  /\ mw.out.status_code = 400
  /\ mw.out.code = "INTEGRITY_ERROR"
  /\ ~ClaimBodyHasText

\* the raw path of the request is made of "/" characters only
ClaimOnlySlashes == \A i \in 1..Len(path) : path[i] = "/"

\* _validate_path has accepted the path of the request and returned safe
ClaimPathAccepted == kind = "doc" /\ pc = "doc_metadata"

\* C29: the logical path _validate_path returns for an input it accepts is
\* not empty and neither starts nor ends with "/"; an input of "/"
\* characters only resolves to "index" as the empty input does, so that no
\* breadcrumb and no title is built from an empty segment.
C29_ValidatedPathNonEmpty ==
  /\ ClaimPathAccepted =>
       /\ safe # <<>>
       /\ Head(safe) # "/"
       /\ safe[Len(safe)] # "/"
       /\ ClaimOnlySlashes => safe = IndexStr
  /\ (kind = "doc" /\ pc = "doc_locate") =>
       /\ meta.title # <<>>
       /\ \A i \in 1..Len(meta.breadcrumbs) : meta.breadcrumbs[i] # <<>>

\* the create_user call of session s for username u is over
ClaimCreateOver(s, u) ==
  /\ sess[s].call.op = "service_create"
  /\ sess[s].call.step = "done"
  /\ sess[s].call.username = u

\* of two create_user calls for one username in two sessions, not both
\* have returned a user
ClaimOneWinner ==
  \A s, t \in SessionIds, u \in Usernames :
    (s # t /\ ClaimCreateOver(s, u) /\ ClaimCreateOver(t, u)) =>
      (sess[s].call.error # "" \/ sess[t].call.error # "")

\* a create_user call that has raised has been rolled back by its
\* transaction_scope, which raised the error on
ClaimLoserRolledBack ==
  \A s \in SessionIds, u \in Usernames :
    (ClaimCreateOver(s, u) /\ sess[s].call.error # "") =>
      /\ sess[s].pending = {}
      /\ sess[s].scope.kind = "transaction_scope"
      /\ sess[s].scope.raised = sess[s].call.error
      /\ \E i \in 1..Len(sess[s].scope.calls) : sess[s].scope.calls[i] = "rollback"

\* no username is carried by two committed users
ClaimOneCommitted ==
  \A u \in Usernames : Cardinality({r \in db.users : r.username = u}) <= 1

\* the step in which a create_user call raises commits nothing
ClaimLoserStep ==
  \A s \in SessionIds :
    (/\ sess'[s].call # sess[s].call
     /\ sess'[s].call.op = "service_create"
     /\ sess'[s].call.step = "done"
     /\ sess'[s].call.error # "") => db'.users = db.users

\* C30: under every interleaving of two UserService.create_user calls for
\* one username in two sessions at most one commits a user; the other call
\* raises an error and its transaction is rolled back, and no state with two
\* committed users of that username is reached.
C30_ConcurrentCreateOneWinner ==
  /\ [](ClaimOneWinner /\ ClaimLoserRolledBack /\ ClaimOneCommitted)
  /\ [][ClaimLoserStep]_vars

\* C30 witness: both calls passed the username_exists query before either
\* inserted; one committed "ann", the other's INSERT raised IntegrityError
\* and was rolled back.
C30_Witness ==
  \E s, t \in SessionIds :
    /\ s # t
    /\ ClaimCreateOver(s, "ann") /\ sess[s].call.error = ""
    /\ ClaimCreateOver(t, "ann") /\ sess[t].call.error = "IntegrityError"
    /\ sess[t].scope.calls = <<"rollback">>
    /\ sess[t].pending = {}
    /\ Cardinality({r \in db.users : r.username = "ann"}) = 1

====
